---- MODULE Spec2Model ----
(***************************************************************************)
(* Batch planning and resumable transfer state of the dataset downloader.  *)
(*                                                                         *)
(* SpecPlan   : BatchDownloadManager.plan_batch_download and the helpers   *)
(*              under it (analyze_dataset_size, _create_batches).          *)
(* SpecResume : FileTracker (the per-task state store), the filesystem of  *)
(*              the download directory, the transfer-time scan and the     *)
(*              reconciliation loop of                                     *)
(*              DownloadManager._resume_smart_download.                    *)
(* SpecBatch  : the analyze-dataset and batch-download commands with       *)
(*              BatchDownloadManager.execute_batch_download.               *)
(* SpecStore  : the FileTracker interface and the persistence of its map.  *)
(* SpecTransfer : DownloadManager._execute_download and what it returns.   *)
(*                                                                         *)
(* Sizes are byte counts, as in the code.  Python integers are unbounded;  *)
(* every value the model computes stays below 2^31.                        *)
(***************************************************************************)
EXTENDS Integers, Sequences, FiniteSets, TLC

VARIABLES
    \* ---- planner (batch_downloader.py) ----
    file_list,          \* what _get_file_list_with_timeout returned (<<>> on timeout/failure)
    is_dataset,         \* plan_batch_download(is_dataset)
    available_space,    \* plan_batch_download(available_space)
    safety_margin,      \* plan_batch_download(safety_margin), in tenths (9 is 0.9)
    plan,               \* the dict plan_batch_download returned last
    prev_plan,          \* the dict the call before that returned
    plan_calls,         \* number of plan_batch_download calls made
    \* ---- state store, filesystem and resume (file_tracker.py, downloader.py) ----
    file_status,        \* FileTracker.file_status / file_status.json: filename -> record
    disk,               \* download_path: filename -> size on disk, or Absent
    moved_files_strategy, \* DownloadManager.moved_files_strategy
    phase,              \* "idle", or "executing" while _execute_download runs
    exec_files,         \* the file_list handed to _execute_download
    pending_files,      \* pending_files of the last reconciliation
    moved_files,        \* moved_files of the last reconciliation
    quiet_runs,         \* reconciliations run in a row with no outside change
                        \* between them: 0 (none yet), 1, or 2 (two or more)
    changed_since,      \* the filesystem, the policy or the store was changed
                        \* from outside the resume since the last reconciliation
    \* ---- analysis and batch execution (batch_downloader.py, main.py) ----
    enum_outcome,       \* how the remote enumeration ends: "ok", "timeout", "error"
    quick_mode,         \* analyze_dataset_size(quick_mode)
    analysis_result,    \* the dict analyze_dataset_size returned last
    free_space,         \* shutil.disk_usage(download_path).free at the probe
    exec_batch,         \* execute_batch_download(current_batch) of the last call
    exec_result,        \* how that call ended: "true", "false", "raised"
    batch_progress,     \* batch_progress.json of the task
    batch_tracker,      \* file_status of FileTracker(task_id + "_batch_" + i)
    delegated,          \* what the call handed the transfer to
    auto_proceed,       \* execute_batch_download(auto_proceed)
    started_batches,    \* the batches whose transfer the call started, in order
    exec_plan,          \* the plan execute_batch_download was called with
    plan_file,          \* batch_plan_<repo_id>.json
    continue_result,    \* how the last batch-continue command ended
    selected_batch,     \* position in plan['batches'] of the batch the last
                        \* call of execute_batch_download picked, 0 for none
    \* ---- persistence of the state store (file_tracker.py, utils.py) ----
    persisted_status,   \* the content of file_status.json
    last_call,          \* the last FileTracker call: operation, arguments, result
    store_calls,        \* number of FileTracker calls made
    \* ---- result of a transfer (downloader.py) ----
    download_return,    \* what _execute_download returned last
    \* ---- the task list (task_manager.py) and the download process ----
    tasks_file,         \* the task's entry in tasks.json
    dl_tasks,           \* the task's entry in the TaskManager.tasks list of
                        \* the process that runs start_download
    dl_pc,              \* where that process is: "idle", "starting",
                        \* "transfer" (inside _execute_download), "done"
    start_return,       \* what start_download returned last
    commands,           \* number of commands issued
    \* ---- the threads of _execute_download (downloader.py) ----
    agent,              \* the aria2c subprocess: "none", "running",
                        \* "exited_0", "exited_1", "terminated"
    mon_pc,             \* monitor_files thread: "poll", "sleep", "scan", "done"
    main_pc,            \* main path: "read", "join", "final_scan", "returned"
    scans_after_exit,   \* monitoring scans finished after the agent exited
    \* ---- tasks imported from an HFD download (hfd_importer.py) ----
    hfd_files,          \* task['hfd_complete_files'], <<>> for other tasks
    \* ---- time stamps and task ids ----
    now,                \* the clock, in seconds
    stamps,             \* status and time stamps of one record of a store
    registry,           \* ids of the tasks in tasks.json, in creation order
    \* ---- enumeration with a timeout (batch_downloader.py) ----
    enumeration         \* the caller and the thread of
                        \* _get_file_list_with_timeout

plan_vars == <<file_list, is_dataset, available_space, safety_margin,
               plan, prev_plan, plan_calls>>

resume_vars == <<file_status, disk, moved_files_strategy, phase, exec_files,
                 pending_files, moved_files, quiet_runs,
                 changed_since>>

batch_vars == <<enum_outcome, quick_mode, analysis_result, free_space, exec_batch,
                exec_result, batch_progress, batch_tracker, delegated,
                auto_proceed, started_batches, exec_plan, plan_file,
                continue_result, selected_batch>>

store_vars == <<persisted_status, last_call, store_calls>>

task_vars == <<tasks_file, dl_tasks, dl_pc, start_return, commands>>

monitor_vars == <<agent, mon_pc, main_pc, scans_after_exit>>

other_vars == <<hfd_files, now, stamps, registry, enumeration>>

vars == <<file_list, is_dataset, available_space, safety_margin,
          plan, prev_plan, plan_calls,
          file_status, disk, moved_files_strategy, phase, exec_files,
          pending_files, moved_files, quiet_runs,
          changed_since,
          enum_outcome, quick_mode, analysis_result, free_space, exec_batch,
          exec_result, batch_progress, batch_tracker, delegated,
          auto_proceed, started_batches, exec_plan, plan_file,
          continue_result,
          persisted_status, last_call, store_calls,
          download_return,
          tasks_file, dl_tasks, dl_pc, start_return, commands,
          agent, mon_pc, main_pc, scans_after_exit,
          selected_batch, hfd_files, now, stamps, registry, enumeration>>

-----------------------------------------------------------------------------
(* Bounds of the model *)

MaxFiles == 3           \* longest remote listing
MaxSize  == 3           \* sizes 0..MaxSize, plus the sizes of the spec's example
MaxSpace == 4           \* capacities 0..MaxSpace, plus the named ones below
MaxPlanCalls == 2       \* plan_batch_download is called at most this often

ExampleSizes  == {100, 5000}
ExampleSpaces == {1000}

Sizes == (0 .. MaxSize) \cup ExampleSizes

Margins == {5, 9, 10}   \* safety_margin 0.5, 0.9 (the default), 1.0

\* file_info dicts of a listing of n files: filename i is the i-th listed path
\* (paths of a tree listing are distinct), url is determined by the filename.
Listings ==
    UNION { { [i \in 1..n |-> [filename |-> i, size |-> s[i]]] :
              s \in [1..n -> Sizes] } : n \in 0..MaxFiles }

-----------------------------------------------------------------------------
(* Pure helpers *)

RECURSIVE SumSizes(_)
SumSizes(files) ==
    IF files = <<>> THEN 0 ELSE Head(files).size + SumSizes(Tail(files))

RECURSIVE Flatten(_)
Flatten(batches) ==
    IF batches = <<>> THEN <<>>
    ELSE Head(batches).files \o Flatten(Tail(batches))

\* int(available_space * safety_margin) for available_space >= 0 and a margin
\* of m tenths: floor(a*m/10), computed as q*m + floor(r*m/10) with
\* a = 10q + r so that no intermediate product leaves the 32-bit range.
SafeSpace(a, m) == (a \div 10) * m + ((a % 10) * m) \div 10

-----------------------------------------------------------------------------
(* analyze_dataset_size *)

QuickThreshold == 1000

EstimatedFilesDataset == 1000
EstimatedFilesModel   == 100
MiB == 1048576

\* _estimate_analysis: the fallback when no listing was obtained.
EstimateAnalysis(dataset) ==
    LET estimated_files    == IF dataset THEN EstimatedFilesDataset
                              ELSE EstimatedFilesModel
        estimated_avg_size == IF dataset THEN 50 * MiB ELSE 10 * MiB
    IN [analysis_mode |-> "estimate",
        total_files   |-> estimated_files,
        total_size    |-> estimated_files * estimated_avg_size,
        file_list     |-> <<>>,
        is_estimated  |-> TRUE]

\* _full_analyze
FullAnalyze(listing) ==
    [analysis_mode |-> "full",
     total_files   |-> Len(listing),
     total_size    |-> SumSizes(listing),
     file_list     |-> listing,
     is_estimated  |-> FALSE]

\* _quick_analyze returns no 'total_size' key (only 'estimated_total_size').
QuickAnalyze(listing) ==
    [analysis_mode |-> "quick",
     total_files   |-> Len(listing),
     file_list     |-> listing,
     is_estimated  |-> TRUE]

\* analyze_dataset_size without the fallback for an empty listing
AnalyzeDatasetSizeNoFallback(listing, dataset) ==
    IF Len(listing) > QuickThreshold THEN QuickAnalyze(listing)
    ELSE FullAnalyze(listing)

\* analyze_dataset_size(repo_id, is_dataset) with quick_mode = False
AnalyzeDatasetSize(listing, dataset) ==
    IF listing = <<>> THEN EstimateAnalysis(dataset)
    ELSE IF Len(listing) > QuickThreshold THEN QuickAnalyze(listing)
    ELSE FullAnalyze(listing)

\* The model-repository estimate fits 32 bits (1,048,576,000); the dataset
\* estimate (52,428,800,000) does not, so planning is explored for
\* is_dataset = False; the two branches differ in these constants only.
IsDatasetInputs == {FALSE}

\* A capacity large enough for the estimate to fit under every margin.
EstimateSpace == 2 * EstimateAnalysis(FALSE).total_size

Spaces == (0 .. MaxSpace) \cup ExampleSpaces \cup {EstimateSpace}

-----------------------------------------------------------------------------
(* _create_batches *)

OversizeNote == "oversize"      \* 'note': '超大文件单独批次'
NoNote       == "none"          \* the batch dict has no 'note' key

EmptyBatch == [files |-> <<>>, size |-> 0, note |-> NoNote]

\* sorted(file_list, key=size, reverse=True): Python's sort is stable, also
\* with reverse=True, so files of equal size keep their listing order.
RECURSIVE InsertBySizeUnstable(_, _)
InsertBySizeUnstable(sorted, f) ==
    IF sorted = <<>> THEN <<f>>
    ELSE IF Head(sorted).size > f.size
         THEN <<Head(sorted)>> \o InsertBySizeUnstable(Tail(sorted), f)
         ELSE <<f>> \o sorted

RECURSIVE InsertBySize(_, _)
InsertBySize(sorted, f) ==
    IF sorted = <<>> THEN <<f>>
    ELSE IF Head(sorted).size >= f.size
         THEN <<Head(sorted)>> \o InsertBySize(Tail(sorted), f)
         ELSE <<f>> \o sorted

RECURSIVE SortFrom(_, _)
SortFrom(rest, acc) ==
    IF rest = <<>> THEN acc
    ELSE SortFrom(Tail(rest), InsertBySize(acc, Head(rest)))

SortedBySizeDesc(files) == SortFrom(files, <<>>)

\* if file_size > max_batch_size
IsOversizeLoose(file_size, max_batch_size) == file_size >= max_batch_size

IsOversize(file_size, max_batch_size) == file_size > max_batch_size

\* if current_batch['size'] + file_size <= max_batch_size
FitsCurrentLoose(current, file_size, max_batch_size) ==
    current.size <= max_batch_size

FitsCurrent(current, file_size, max_batch_size) ==
    current.size + file_size <= max_batch_size

\* if current_batch['files']: batches.append(current_batch)
CloseBatchLossy(batches, current) == batches

CloseBatch(batches, current) ==
    IF current.files # <<>> THEN Append(batches, current) ELSE batches

\* The for loop of _create_batches over the sorted files, then the final
\* "add the last batch".
RECURSIVE PackFiles(_, _, _, _)
PackFiles(sorted, batches, current, max_batch_size) ==
    IF sorted = <<>> THEN CloseBatch(batches, current)
    ELSE
      LET file_info == Head(sorted)
          file_size == file_info.size
      IN
      IF IsOversize(file_size, max_batch_size)
      THEN PackFiles(Tail(sorted),
                     Append(CloseBatch(batches, current),
                            [files |-> <<file_info>>, size |-> file_size,
                             note |-> OversizeNote]),
                     IF current.files # <<>> THEN EmptyBatch ELSE current,
                     max_batch_size)
      ELSE IF FitsCurrent(current, file_size, max_batch_size)
      THEN PackFiles(Tail(sorted), batches,
                     [current EXCEPT !.files = Append(@, file_info),
                                     !.size  = @ + file_size],
                     max_batch_size)
      ELSE PackFiles(Tail(sorted), CloseBatch(batches, current),
                     [files |-> <<file_info>>, size |-> file_size,
                      note |-> NoNote],
                     max_batch_size)

CreateBatches(files, max_batch_size) ==
    PackFiles(SortedBySizeDesc(files), <<>>, EmptyBatch, max_batch_size)

-----------------------------------------------------------------------------
(* plan_batch_download *)

\* No analysis was made, no batch was executed.
NoAnalysis == [analysis_mode |-> "none"]

NoProgress == [current_batch |-> 0]

NoPlan == [strategy |-> "none", batches |-> <<>>, total_batches |-> 0]

\* batch_plan_<repo_id>.json does not exist.
NoPlanFile == [strategy |-> "no_file"]

BatchIdle ==
    /\ enum_outcome = "ok"
    /\ quick_mode = FALSE
    /\ analysis_result = NoAnalysis
    /\ free_space = 0
    /\ exec_batch = 0
    /\ exec_result = "none"
    /\ batch_progress = NoProgress
    /\ batch_tracker = <<>>
    /\ delegated = "none"
    /\ auto_proceed = FALSE
    /\ started_batches = <<>>
    /\ exec_plan = NoPlan
    /\ plan_file = NoPlanFile
    /\ continue_result = "none"
    /\ selected_batch = 0

\* No FileTracker call was made; file_status.json does not exist.
NoCall == [op |-> "none"]

StoreIdle ==
    /\ persisted_status = <<>>
    /\ last_call = NoCall
    /\ store_calls = 0

NoReturn == [returned |-> "none"]

\* No task was created.
NoTask == [status |-> "none", error_message |-> FALSE, retry_count |-> 0]

TaskIdle ==
    /\ tasks_file = NoTask
    /\ dl_tasks = NoTask
    /\ dl_pc = "idle"
    /\ start_return = "none"
    /\ commands = 0

NoStamps == [status |-> "none", started_at |-> 0, completed_at |-> 0]

NoEnumeration == [thread |-> "none"]

OtherIdle ==
    /\ hfd_files = <<>>
    /\ now = 0
    /\ stamps = NoStamps
    /\ registry = <<>>
    /\ enumeration = NoEnumeration

\* No transfer was started.
MonitorIdle ==
    /\ agent = "none"
    /\ mon_pc = "done"
    /\ main_pc = "returned"
    /\ scans_after_exit = 0

\* if total_size <= safe_space
FitsSingleBatch(total_size, safe_space) == total_size <= safe_space

PlanResult(listing, dataset, space, margin) ==
    LET analysis   == AnalyzeDatasetSize(listing, dataset)
        files      == analysis.file_list
        total_size == analysis.total_size
        safe_space == SafeSpace(space, margin)
    IN
    IF FitsSingleBatch(total_size, safe_space)
    THEN [strategy      |-> "single_batch",
          batches       |-> << [files |-> files, size |-> total_size,
                                note |-> NoNote] >>,
          total_batches |-> 1]
    ELSE LET batches == CreateBatches(files, safe_space)
         IN [strategy        |-> "multi_batch",
             batches         |-> batches,
             total_batches   |-> Len(batches),
             available_space |-> space,
             safe_space      |-> safe_space]

PlanInit ==
    /\ file_list \in Listings
    /\ is_dataset \in IsDatasetInputs
    /\ available_space \in Spaces
    /\ safety_margin \in Margins
    /\ plan = NoPlan
    /\ prev_plan = NoPlan
    /\ plan_calls = 0
    /\ file_status = <<>>
    /\ disk = <<>>
    /\ moved_files_strategy = "skip"
    /\ phase = "idle"
    /\ exec_files = <<>>
    /\ pending_files = <<>>
    /\ moved_files = <<>>
    /\ quiet_runs = 0
    /\ changed_since = FALSE
    /\ BatchIdle
    /\ StoreIdle
    /\ download_return = NoReturn
    /\ TaskIdle
    /\ MonitorIdle
    /\ OtherIdle

\* plan_batch_download(repo_id, available_space, is_dataset, safety_margin).
\* A listing of more than QuickThreshold files takes the sampled analysis,
\* whose result has no 'total_size': the call raises KeyError and returns
\* nothing.
PlanBatchDownload ==
    /\ plan_calls < MaxPlanCalls
    /\ AnalyzeDatasetSize(file_list, is_dataset).analysis_mode # "quick"
    /\ plan' = PlanResult(file_list, is_dataset, available_space, safety_margin)
    /\ prev_plan' = plan
    /\ plan_calls' = plan_calls + 1
    /\ UNCHANGED <<file_list, is_dataset, available_space, safety_margin>>
    /\ UNCHANGED resume_vars
    /\ UNCHANGED <<batch_vars, store_vars, download_return,
                   task_vars, monitor_vars, other_vars>>

PlanNext == PlanBatchDownload

SpecPlan == PlanInit /\ [][PlanNext]_vars

-----------------------------------------------------------------------------
(* FileTracker: the per-task state store (file_tracker.py)                 *)
(*                                                                         *)
(* A record keeps the fields the transfer logic reads back: filename,      *)
(* expected_size, status, actual_size (downloaded_size, the timestamps,    *)
(* error_message and attempts are written and never read by it; keyword    *)
(* arguments naming them are passed as in the code and fall on no field).  *)
(* The dict is iterated in insertion order; filenames are numbered in the  *)
(* order of the listing that created them, so that order is 1, 2, ...      *)
(***************************************************************************)

MaxTracked  == 2        \* files of a task
MaxFileSize == 2        \* expected sizes and on-disk sizes are 0..MaxFileSize

Absent == -1            \* file_path.exists() is False

FileSizes == 0 .. MaxFileSize
DiskStates == {Absent} \cup FileSizes
Strategies == {"skip", "redownload"}

\* file_info dicts of a fresh remote listing (no 'status' key)
TaskListings ==
    UNION { { [i \in 1..n |-> [filename |-> i, size |-> s[i]]] :
              s \in [1..n -> FileSizes] } : n \in 1..MaxTracked }

Names(map) == DOMAIN map

\* The dict's keys in iteration order.
RECURSIVE KeysFrom(_, _)
KeysFrom(map, k) ==
    IF k \in DOMAIN map THEN <<k>> \o KeysFrom(map, k + 1) ELSE <<>>

Keys(map) == KeysFrom(map, 1)

Get(rec, key, default) == IF key \in DOMAIN rec THEN rec[key] ELSE default

\* The record initialize_file_list creates for an untracked file.
NewRecord(file_info) ==
    LET status == Get(file_info, "status", "pending")
    IN [filename        |-> file_info.filename,
        expected_size   |-> Get(file_info, "size", 0),
        status          |-> status,
        actual_size     |-> IF status = "completed"
                            THEN Get(file_info, "actual_size", 0) ELSE 0]

\* initialize_file_list that writes a record for every listed file
RECURSIVE InitializeFileListOverwrites(_, _)
InitializeFileListOverwrites(map, listing) ==
    IF listing = <<>> THEN map
    ELSE LET file_info == Head(listing)
             file_key  == file_info.filename
         IN InitializeFileListOverwrites(
                [k \in DOMAIN map \cup {file_key} |->
                    IF k = file_key THEN NewRecord(file_info) ELSE map[k]],
                Tail(listing))

\* initialize_file_list: only files not yet tracked get a record.
RECURSIVE InitializeFileList(_, _)
InitializeFileList(map, listing) ==
    IF listing = <<>> THEN map
    ELSE LET file_info == Head(listing)
             file_key  == file_info.filename
         IN InitializeFileList(
                IF file_key \in DOMAIN map THEN map
                ELSE [k \in DOMAIN map \cup {file_key} |->
                        IF k = file_key THEN NewRecord(file_info) ELSE map[k]],
                Tail(listing))

\* The body of update_file_status on a tracked record: the status, then every
\* keyword argument that names a field of the record.
UpdateRecord(info, status, kwargs) ==
    [k \in DOMAIN info |->
        IF k \in DOMAIN kwargs THEN kwargs[k]
        ELSE IF k = "status" THEN status
        ELSE info[k]]

NoKwargs == [k \in {} |-> 0]

\* update_file_status that tracks an unknown filename
UpdateFileStatusCreates(map, filename, status, kwargs) ==
    IF filename \notin DOMAIN map
    THEN [k \in DOMAIN map \cup {filename} |->
            IF k = filename
            THEN [filename |-> filename, expected_size |-> 0,
                  status |-> status, actual_size |-> 0]
            ELSE map[k]]
    ELSE [map EXCEPT ![filename] = UpdateRecord(@, status, kwargs)]

\* update_file_status: an untracked filename changes nothing (returns False).
UpdateFileStatus(map, filename, status, kwargs) ==
    IF filename \notin DOMAIN map THEN map
    ELSE [map EXCEPT ![filename] = UpdateRecord(@, status, kwargs)]

\* mark_file_completed
MarkFileCompletedResult(map, filename, on_disk) ==
    IF on_disk # Absent
    THEN UpdateFileStatus(map, filename, "completed",
                          [actual_size |-> on_disk])
    ELSE UpdateFileStatus(map, filename, "failed", NoKwargs)

\* verify_file_integrity: the actual size of every file found on disk is
\* recorded under the record's current status.
RECURSIVE VerifyLoop(_, _, _)
VerifyLoop(names, map, on_disk) ==
    IF names = <<>> THEN map
    ELSE LET filename == Head(names)
         IN VerifyLoop(Tail(names),
                       IF on_disk[filename] = Absent THEN map
                       ELSE UpdateFileStatus(map, filename,
                                map[filename].status,
                                [actual_size |-> on_disk[filename]]),
                       on_disk)

VerifyFileIntegrityResult(map, on_disk) == VerifyLoop(Keys(map), map, on_disk)

-----------------------------------------------------------------------------
(* DownloadManager._check_and_update_file_status: the scan of a transfer *)

\* The scan of one file without the skip of completed records
ScanRecordRechecksCompleted(info, on_disk, expected_size) ==
    IF on_disk # Absent
    THEN IF expected_size > 0 /\ on_disk = expected_size
         THEN UpdateRecord(info, "completed",
                  [actual_size |-> on_disk, downloaded_size |-> on_disk])
         ELSE IF on_disk > 0
         THEN UpdateRecord(info, "downloading", [downloaded_size |-> on_disk])
         ELSE info
    ELSE IF info.status = "downloading"
    THEN UpdateRecord(info, "downloading", [downloaded_size |-> 0])
    ELSE info

\* One file of the scan: the record after it.  expected_size comes from the
\* file_size_map built from the file list handed to _execute_download.
ScanRecord(info, on_disk, expected_size) ==
    IF info.status = "completed" THEN info
    ELSE IF on_disk # Absent
    THEN IF expected_size > 0 /\ on_disk = expected_size
         THEN UpdateRecord(info, "completed",
                  [actual_size |-> on_disk, downloaded_size |-> on_disk])
         ELSE IF on_disk > 0
         THEN UpdateRecord(info, "downloading", [downloaded_size |-> on_disk])
         ELSE info
    ELSE IF info.status = "downloading"
    THEN UpdateRecord(info, "downloading", [downloaded_size |-> 0])
    ELSE info

RECURSIVE ScanLoop(_, _, _, _)
ScanLoop(files, map, on_disk, count) ==
    IF files = <<>> THEN [file_status |-> map, completed_count |-> count]
    ELSE LET file_info == Head(files)
             filename  == file_info.filename
         IN IF filename \notin DOMAIN map
            THEN ScanLoop(Tail(files), map, on_disk, count)
            ELSE LET after == ScanRecord(map[filename], on_disk[filename],
                                         Get(file_info, "size", 0))
                 IN ScanLoop(Tail(files),
                             [map EXCEPT ![filename] = after],
                             on_disk,
                             IF after.status = "completed" THEN count + 1
                             ELSE count)

CheckAndUpdateFileStatus(files, map, on_disk) ==
    ScanLoop(files, map, on_disk, 0)

-----------------------------------------------------------------------------
(* DownloadManager._resume_smart_download: the reconciliation loop *)

PendingEntry(info) == [filename |-> info.filename, size |-> info.expected_size]

MovedEntry(info) ==
    [filename |-> info.filename, size |-> info.expected_size,
     actual_size |-> info.actual_size]

\* if file_path.exists(): complete when the size is unknown or matches,
\* otherwise pending again.
ReconcilePresentKeepsStatus(info, actual_size) ==
    IF info.expected_size = 0 \/ actual_size = info.expected_size
    THEN [info |-> IF info.status # "completed"
                   THEN UpdateRecord(info, "completed",
                            [actual_size |-> actual_size,
                             downloaded_size |-> actual_size])
                   ELSE info,
          verdict |-> "completed"]
    ELSE [info |-> info, verdict |-> "pending"]

\* the present branch completing a record without its actual size
ReconcilePresentDropsSize(info, actual_size) ==
    IF info.expected_size = 0 \/ actual_size = info.expected_size
    THEN [info |-> IF info.status # "completed"
                   THEN UpdateRecord(info, "completed", NoKwargs)
                   ELSE info,
          verdict |-> "completed"]
    ELSE [info |-> UpdateRecord(info, "pending", NoKwargs),
          verdict |-> "pending"]

ReconcilePresent(info, actual_size) ==
    IF info.expected_size = 0 \/ actual_size = info.expected_size
    THEN [info |-> IF info.status # "completed"
                   THEN UpdateRecord(info, "completed",
                            [actual_size |-> actual_size,
                             downloaded_size |-> actual_size])
                   ELSE info,
          verdict |-> "completed"]
    ELSE [info |-> UpdateRecord(info, "pending", NoKwargs),
          verdict |-> "pending"]

\* The file is absent and tracked completed: a moved file.
ReconcileMovedMarksMoved(info, strategy) ==
    IF strategy = "redownload"
    THEN [info |-> UpdateRecord(info, "pending", NoKwargs),
          verdict |-> "moved_redownload"]
    ELSE [info |-> UpdateRecord(info, "moved", NoKwargs),
          verdict |-> "moved_skip"]

ReconcileMovedAlwaysRefetch(info, strategy) ==
    [info |-> UpdateRecord(info, "pending", NoKwargs),
     verdict |-> "moved_redownload"]

ReconcileMovedAlwaysSkip(info, strategy) ==
    [info |-> info, verdict |-> "moved_skip"]

ReconcileMoved(info, strategy) ==
    IF strategy = "redownload"
    THEN [info |-> UpdateRecord(info, "pending", NoKwargs),
          verdict |-> "moved_redownload"]
    ELSE [info |-> info, verdict |-> "moved_skip"]

\* the missing branch queueing the file without resetting its record
ReconcileMissingKeepsStatus(info) ==
    [info |-> info, verdict |-> "pending"]

\* The file is absent and was not completed: it still has to be fetched.
ReconcileMissing(info) ==
    [info |-> UpdateRecord(info, "pending", NoKwargs), verdict |-> "pending"]

ReconcileRecord(info, on_disk, strategy) ==
    IF on_disk # Absent THEN ReconcilePresent(info, on_disk)
    ELSE IF info.status = "completed" THEN ReconcileMoved(info, strategy)
    ELSE ReconcileMissing(info)

RECURSIVE ReconcileLoop(_, _, _, _, _)
ReconcileLoop(names, acc, map, on_disk, strategy) ==
    IF names = <<>> THEN acc
    ELSE
      LET filename == Head(names)
          out      == ReconcileRecord(map[filename], on_disk[filename], strategy)
          v        == out.verdict
      IN ReconcileLoop(Tail(names),
            [file_status     |-> [acc.file_status EXCEPT ![filename] = out.info],
             pending_files   |-> IF v \in {"pending", "moved_redownload"}
                                 THEN Append(acc.pending_files,
                                             PendingEntry(map[filename]))
                                 ELSE acc.pending_files,
             moved_files     |-> IF v \in {"moved_skip", "moved_redownload"}
                                 THEN Append(acc.moved_files,
                                             MovedEntry(map[filename]))
                                 ELSE acc.moved_files,
             completed_count |-> IF v \in {"completed", "moved_skip"}
                                 THEN acc.completed_count + 1
                                 ELSE acc.completed_count],
            map, on_disk, strategy)

Reconcile(map, on_disk, strategy) ==
    ReconcileLoop(Keys(map),
                  [file_status |-> map, pending_files |-> <<>>,
                   moved_files |-> <<>>, completed_count |-> 0],
                  map, on_disk, strategy)

-----------------------------------------------------------------------------
(* The operations on a task's store and download directory *)

ResumeInit ==
    /\ file_list = <<>>
    /\ is_dataset = FALSE
    /\ available_space = 0
    /\ safety_margin = 9
    /\ plan = NoPlan
    /\ prev_plan = NoPlan
    /\ plan_calls = 0
    /\ file_status = <<>>
    /\ disk = [f \in 1..MaxTracked |-> Absent]
    /\ moved_files_strategy = "skip"
    /\ phase = "idle"
    /\ exec_files = <<>>
    /\ pending_files = <<>>
    /\ moved_files = <<>>
    /\ quiet_runs = 0
    /\ changed_since = FALSE
    /\ BatchIdle
    /\ StoreIdle
    /\ download_return = NoReturn
    /\ TaskIdle
    /\ MonitorIdle
    /\ OtherIdle

\* start_download on a task without records: _start_fresh_download fetches
\* the listing, _save_repo_metadata initializes the store, and every listed
\* file is handed to _execute_download.
StartFreshDownload ==
    /\ phase = "idle"
    /\ DOMAIN file_status = {}
    /\ \E listing \in TaskListings :
          /\ file_status' = InitializeFileList(file_status, listing)
          /\ exec_files' = listing
    /\ phase' = "executing"
    /\ changed_since' = TRUE
    /\ UNCHANGED <<disk, moved_files_strategy, pending_files, moved_files,
                   quiet_runs>>
    /\ UNCHANGED plan_vars
    /\ UNCHANGED <<batch_vars, store_vars, download_return,
                   task_vars, monitor_vars, other_vars>>

\* The transfer agent writes (part of) one of the files it was handed.
AgentWrite ==
    /\ phase = "executing"
    /\ \E i \in 1..Len(exec_files) : \E size \in FileSizes :
          /\ disk[exec_files[i].filename] # size
          /\ disk' = [disk EXCEPT ![exec_files[i].filename] = size]
    /\ changed_since' = TRUE
    /\ UNCHANGED <<file_status, moved_files_strategy, phase, exec_files,
                   pending_files, moved_files, quiet_runs>>
    /\ UNCHANGED plan_vars
    /\ UNCHANGED <<batch_vars, store_vars, download_return,
                   task_vars, monitor_vars, other_vars>>

\* monitor_files: one periodic scan while the agent runs.
MonitorScan ==
    /\ phase = "executing"
    /\ file_status' =
          CheckAndUpdateFileStatus(exec_files, file_status, disk).file_status
    /\ UNCHANGED <<disk, moved_files_strategy, phase, exec_files,
                   pending_files, moved_files, quiet_runs,
                   changed_since>>
    /\ UNCHANGED plan_vars
    /\ UNCHANGED <<batch_vars, store_vars, download_return,
                   task_vars, monitor_vars, other_vars>>

\* The agent has exited: the final scan of _execute_download, which returns.
FinishDownload ==
    /\ phase = "executing"
    /\ file_status' =
          CheckAndUpdateFileStatus(exec_files, file_status, disk).file_status
    /\ phase' = "idle"
    /\ exec_files' = <<>>
    /\ UNCHANGED <<disk, moved_files_strategy, pending_files, moved_files,
                   quiet_runs, changed_since>>
    /\ UNCHANGED plan_vars
    /\ UNCHANGED <<batch_vars, store_vars, download_return,
                   task_vars, monitor_vars, other_vars>>

\* _execute_download raises before the agent runs (the input file cannot be
\* written, aria2c cannot be started): it returns False without a scan.
ExecuteDownloadFails ==
    /\ phase = "executing"
    /\ phase' = "idle"
    /\ exec_files' = <<>>
    /\ UNCHANGED <<file_status, disk, moved_files_strategy, pending_files,
                   moved_files, quiet_runs, changed_since>>
    /\ UNCHANGED plan_vars
    /\ UNCHANGED <<batch_vars, store_vars, download_return,
                   task_vars, monitor_vars, other_vars>>

\* The operator moves a file out of the download directory (at any time).
OperatorMovesFile ==
    /\ \E f \in DOMAIN disk :
          /\ disk[f] # Absent
          /\ disk' = [disk EXCEPT ![f] = Absent]
    /\ changed_since' = TRUE
    /\ UNCHANGED <<file_status, moved_files_strategy, phase, exec_files,
                   pending_files, moved_files, quiet_runs>>
    /\ UNCHANGED plan_vars
    /\ UNCHANGED <<batch_vars, store_vars, download_return,
                   task_vars, monitor_vars, other_vars>>

\* set_moved_files_strategy, as the resume command calls it.
SetMovedFilesStrategy ==
    /\ phase = "idle"
    /\ \E strategy \in Strategies :
          /\ strategy # moved_files_strategy
          /\ moved_files_strategy' = strategy
    /\ changed_since' = TRUE
    /\ UNCHANGED <<file_status, disk, phase, exec_files, pending_files,
                   moved_files, quiet_runs>>
    /\ UNCHANGED plan_vars
    /\ UNCHANGED <<batch_vars, store_vars, download_return,
                   task_vars, monitor_vars, other_vars>>

\* FileTracker.mark_file_completed, called on a tracked file.
MarkFileCompleted ==
    /\ phase = "idle"
    /\ \E f \in DOMAIN file_status :
          file_status' = MarkFileCompletedResult(file_status, f, disk[f])
    /\ changed_since' = TRUE
    /\ UNCHANGED <<disk, moved_files_strategy, phase, exec_files,
                   pending_files, moved_files, quiet_runs>>
    /\ UNCHANGED plan_vars
    /\ UNCHANGED <<batch_vars, store_vars, download_return,
                   task_vars, monitor_vars, other_vars>>

\* start_download on a task that has records and was not imported from an
\* HFD download: _resume_smart_download reconciles the store with the
\* directory, then either finds nothing pending and returns, or hands the
\* pending files to _execute_download.
ResumeSmartDownload ==
    /\ phase = "idle"
    /\ DOMAIN file_status # {}
    /\ LET r == Reconcile(file_status, disk, moved_files_strategy)
       IN /\ file_status' = r.file_status
          /\ pending_files' = r.pending_files
          /\ moved_files' = r.moved_files
          /\ IF Len(r.pending_files) = 0
             THEN phase' = "idle" /\ exec_files' = <<>>
             ELSE phase' = "executing" /\ exec_files' = r.pending_files
    /\ quiet_runs' = IF quiet_runs >= 1 /\ ~changed_since THEN 2 ELSE 1
    /\ changed_since' = FALSE
    /\ UNCHANGED <<disk, moved_files_strategy>>
    /\ UNCHANGED plan_vars
    /\ UNCHANGED <<batch_vars, store_vars, download_return,
                   task_vars, monitor_vars, other_vars>>

ResumeNext ==
    \/ StartFreshDownload
    \/ AgentWrite
    \/ MonitorScan
    \/ FinishDownload
    \/ ExecuteDownloadFails
    \/ OperatorMovesFile
    \/ SetMovedFilesStrategy
    \/ MarkFileCompleted
    \/ ResumeSmartDownload

SpecResume == ResumeInit /\ [][ResumeNext]_vars

-----------------------------------------------------------------------------
(* The analyze-dataset and batch-download commands (main.py) and            *)
(* BatchDownloadManager.execute_batch_download                              *)

EnumOutcomes == {"ok", "timeout", "error"}

DefaultSafetyMargin == 9    \* plan_batch_download(safety_margin = 0.9)

\* _get_file_list_with_timeout: [] when the listing thread is still alive at
\* the timeout, otherwise what _get_file_list returned (an error is raised
\* again and handled by the caller).
GetFileListWithTimeout(listing, outcome) ==
    IF outcome = "timeout" THEN <<>> ELSE listing

\* analyze_dataset_size(repo_id, is_dataset, quick_mode) around an
\* enumeration that ends in the given way: an exception and an empty listing
\* both end in _estimate_analysis.
AnalyzeWithTimeout(listing, dataset, quick, outcome) ==
    IF outcome = "error" THEN EstimateAnalysis(dataset)
    ELSE LET got == GetFileListWithTimeout(listing, outcome)
         IN IF got # <<>> /\ quick THEN QuickAnalyze(got)
            ELSE AnalyzeDatasetSize(got, dataset)

\* The listing plan_batch_download works on, for an enumeration that ends in
\* the given way.
ListingSeen(listing, outcome) == IF outcome = "ok" THEN listing ELSE <<>>

\* execute_batch_download(task_id, plan, current_batch) up to the capacity
\* check.  The dict check_disk_space returns has no 'status' key, so
\* system_check['disk_space']['status'] raises KeyError for every batch that
\* exists, whatever the free space; the statements after it (the batch
\* tracker, _save_batch_progress, _download_batch) are never reached.
ExecuteBatchOutcome(p, current_batch) ==
    IF p.strategy = "single_batch" THEN "start_download"
    ELSE IF current_batch > p.total_batches THEN "true"
    ELSE "raised"

\* batch = plan['batches'][current_batch - 1] (355): the position of the
\* batch that is picked, 0 when the statement is not reached or raises
\* IndexError.  A negative Python index counts from the end of the list.
SelectedBatch(p, current_batch) ==
    IF p.strategy = "single_batch" THEN 0
    ELSE IF current_batch > p.total_batches THEN 0
    ELSE LET index == current_batch - 1
             length == Len(p.batches)
         IN IF index >= 0 THEN (IF index < length THEN index + 1 ELSE 0)
            ELSE IF 0 - index <= length THEN length + index + 1
            ELSE 0

BatchInit ==
    /\ file_list \in Listings
    /\ is_dataset \in IsDatasetInputs
    /\ available_space \in Spaces
    /\ safety_margin = DefaultSafetyMargin
    /\ plan = NoPlan
    /\ prev_plan = NoPlan
    /\ plan_calls = 0
    /\ file_status = <<>>
    /\ disk = <<>>
    /\ moved_files_strategy = "skip"
    /\ phase = "idle"
    /\ exec_files = <<>>
    /\ pending_files = <<>>
    /\ moved_files = <<>>
    /\ quiet_runs = 0
    /\ changed_since = FALSE
    /\ enum_outcome \in EnumOutcomes
    /\ quick_mode \in BOOLEAN
    /\ analysis_result = NoAnalysis
    /\ free_space = 0
    /\ exec_batch = 0
    /\ exec_result = "none"
    /\ batch_progress = NoProgress
    /\ batch_tracker = <<>>
    /\ delegated = "none"
    /\ auto_proceed \in BOOLEAN
    /\ started_batches = <<>>
    /\ exec_plan = NoPlan
    /\ plan_file = NoPlanFile
    /\ continue_result = "none"
    /\ selected_batch = 0
    /\ StoreIdle
    /\ download_return = NoReturn
    /\ TaskIdle
    /\ MonitorIdle
    /\ OtherIdle

\* The analyze-dataset command: analyze_dataset_size with the --quick flag.
AnalyzeDataset ==
    /\ analysis_result = NoAnalysis
    /\ exec_result = "none"
    /\ analysis_result' =
          AnalyzeWithTimeout(file_list, is_dataset, quick_mode, enum_outcome)
    /\ UNCHANGED <<enum_outcome, quick_mode, free_space, exec_batch,
                   exec_result, batch_progress, batch_tracker, delegated,
                   auto_proceed, started_batches, exec_plan, plan_file,
                   continue_result, selected_batch>>
    /\ UNCHANGED <<plan_vars, resume_vars, store_vars, download_return,
                   task_vars, monitor_vars, other_vars>>

\* The batch-download command: plan_batch_download (default margin, full
\* analysis), then execute_batch_download(task_id, plan, current_batch = 1,
\* auto_proceed).  The command does not write the plan file.  The call on a
\* multi-batch plan ends at the capacity check (ExecuteBatchOutcome), before
\* _download_batch and before the auto_proceed branch, so no batch is
\* started and started_batches stays empty.
\* A single-batch plan is handed to start_download, which fetches the
\* listing again and returns what the transfer returned.
BatchDownload ==
    /\ exec_result = "none"
    /\ LET seen == ListingSeen(file_list, enum_outcome)
           p    == PlanResult(seen, is_dataset, available_space,
                              DefaultSafetyMargin)
           out  == ExecuteBatchOutcome(p, 1)
       IN /\ analysis_result' =
                AnalyzeWithTimeout(file_list, is_dataset, FALSE, enum_outcome)
          /\ plan' = p
          /\ prev_plan' = plan
          /\ plan_calls' = plan_calls + 1
          /\ exec_plan' = p
          /\ exec_batch' = 1
          /\ IF out = "start_download"
             THEN /\ delegated' = "start_download"
                  /\ exec_result' \in {"true", "false"}
                  /\ free_space' = free_space
             ELSE IF out = "true"
             THEN /\ delegated' = delegated
                  /\ exec_result' = "true"
                  /\ free_space' = free_space
             ELSE /\ delegated' = delegated
                  /\ exec_result' = "raised"
                  /\ free_space' \in Spaces
    /\ UNCHANGED <<enum_outcome, quick_mode, batch_progress, batch_tracker,
                   auto_proceed, started_batches, plan_file,
                   continue_result>>
    /\ selected_batch' =
          SelectedBatch(PlanResult(ListingSeen(file_list, enum_outcome),
                                   is_dataset, available_space,
                                   DefaultSafetyMargin), 1)
    /\ UNCHANGED <<file_list, is_dataset, available_space, safety_margin>>
    /\ UNCHANGED <<resume_vars, store_vars, download_return,
                   task_vars, monitor_vars, other_vars>>

BatchNext ==
    \/ AnalyzeDataset
    \/ BatchDownload

SpecBatch == BatchInit /\ [][BatchNext]_vars

\* --available-space arguments and listings of the plan-batch and
\* batch-download commands in SpecContinue
PlanSpaces == 0 .. MaxSpace

ContinueListings ==
    { l \in Listings : \A i \in 1..Len(l) : l[i].size \in 1..MaxSize }

\* The plan-batch command: plan_batch_download with the --available-space
\* and --safety-margin of this command, then save_json_file(plan_file, plan).
\* It is the only writer of batch_plan_<repo_id>.json.
PlanBatch ==
    /\ plan_calls < MaxPlanCalls
    /\ \E space \in PlanSpaces :
          LET p == PlanResult(ListingSeen(file_list, enum_outcome), is_dataset,
                              space, safety_margin)
          IN /\ plan' = p
             /\ prev_plan' = plan
             /\ plan_calls' = plan_calls + 1
             /\ plan_file' = p
    /\ UNCHANGED <<file_list, is_dataset, available_space, safety_margin>>
    /\ UNCHANGED <<enum_outcome, quick_mode, analysis_result, free_space,
                   exec_batch, exec_result, batch_progress, batch_tracker,
                   delegated, auto_proceed, started_batches, exec_plan,
                   continue_result, selected_batch>>
    /\ UNCHANGED <<resume_vars, store_vars, download_return,
                   task_vars, monitor_vars, other_vars>>

\* batch_number arguments of batch-continue (type=int: any integer)
BatchNumbers == (0 - 1) .. (MaxFiles + 1)

\* The batch-continue command: without batch_progress.json it returns at
\* once; without the plan file it returns; otherwise it loads the plan file
\* and calls execute_batch_download(task_id, plan, batch_number, False).
BatchContinue ==
    /\ \E batch_number \in BatchNumbers :
           IF batch_progress = NoProgress
           THEN /\ continue_result' = "no_progress"
                /\ UNCHANGED <<exec_plan, exec_batch, exec_result, delegated,
                               free_space, auto_proceed, selected_batch>>
           ELSE IF plan_file = NoPlanFile
           THEN /\ continue_result' = "no_plan_file"
                /\ UNCHANGED <<exec_plan, exec_batch, exec_result, delegated,
                               free_space, auto_proceed, selected_batch>>
           ELSE LET out == ExecuteBatchOutcome(plan_file, batch_number)
                IN /\ continue_result' = "executed"
                   /\ exec_plan' = plan_file
                   /\ exec_batch' = batch_number
                   /\ selected_batch' = SelectedBatch(plan_file, batch_number)
                   /\ auto_proceed' = FALSE
                   /\ IF out = "start_download"
                      THEN /\ delegated' = "start_download"
                           /\ exec_result' \in {"true", "false"}
                           /\ free_space' = free_space
                      ELSE IF out = "true"
                      THEN /\ delegated' = delegated
                           /\ exec_result' = "true"
                           /\ free_space' = free_space
                      ELSE /\ delegated' = delegated
                           /\ exec_result' = "raised"
                           /\ free_space' \in Spaces
    /\ UNCHANGED <<enum_outcome, quick_mode, analysis_result, batch_progress,
                   batch_tracker, started_batches, plan_file>>
    /\ UNCHANGED <<plan_vars, resume_vars, store_vars, download_return,
                   task_vars, monitor_vars, other_vars>>

ContinueInit ==
    /\ file_list \in ContinueListings
    /\ is_dataset \in IsDatasetInputs
    /\ available_space \in PlanSpaces
    /\ safety_margin \in Margins
    /\ plan = NoPlan
    /\ prev_plan = NoPlan
    /\ plan_calls = 0
    /\ file_status = <<>>
    /\ disk = <<>>
    /\ moved_files_strategy = "skip"
    /\ phase = "idle"
    /\ exec_files = <<>>
    /\ pending_files = <<>>
    /\ moved_files = <<>>
    /\ quiet_runs = 0
    /\ changed_since = FALSE
    /\ enum_outcome = "ok"
    /\ quick_mode = FALSE
    /\ analysis_result = NoAnalysis
    /\ free_space = 0
    /\ exec_batch = 0
    /\ exec_result = "none"
    /\ batch_progress = NoProgress
    /\ batch_tracker = <<>>
    /\ delegated = "none"
    /\ auto_proceed \in BOOLEAN
    /\ started_batches = <<>>
    /\ exec_plan = NoPlan
    /\ plan_file = NoPlanFile
    /\ continue_result = "none"
    /\ selected_batch = 0
    /\ StoreIdle
    /\ download_return = NoReturn
    /\ TaskIdle
    /\ MonitorIdle
    /\ OtherIdle

ContinueNext ==
    \/ PlanBatch
    \/ BatchDownload
    \/ BatchContinue

SpecContinue == ContinueInit /\ [][ContinueNext]_vars

\* execute_batch_download(task_id, plan, current_batch, False) called on
\* the plan of the plan file, as batch-continue calls it.
ExecuteBatchDownload ==
    /\ plan_file # NoPlanFile
    /\ exec_result = "none"
    /\ \E batch_number \in BatchNumbers :
          LET out == ExecuteBatchOutcome(plan_file, batch_number)
          IN /\ exec_plan' = plan_file
             /\ exec_batch' = batch_number
             /\ selected_batch' = SelectedBatch(plan_file, batch_number)
             /\ auto_proceed' = FALSE
             /\ IF out = "start_download"
                THEN /\ delegated' = "start_download"
                     /\ exec_result' \in {"true", "false"}
                     /\ free_space' = free_space
                ELSE IF out = "true"
                THEN /\ delegated' = delegated
                     /\ exec_result' = "true"
                     /\ free_space' = free_space
                ELSE /\ delegated' = delegated
                     /\ exec_result' = "raised"
                     /\ free_space' \in PlanSpaces
    /\ UNCHANGED <<enum_outcome, quick_mode, analysis_result, batch_progress,
                   batch_tracker, started_batches, plan_file,
                   continue_result>>
    /\ UNCHANGED <<plan_vars, resume_vars, store_vars, download_return,
                   task_vars, monitor_vars, other_vars>>

ExecuteNext ==
    \/ PlanBatch
    \/ ExecuteBatchDownload

SpecExecute == ContinueInit /\ [][ExecuteNext]_vars

-----------------------------------------------------------------------------
(* The FileTracker interface with its persistence: every call works on the  *)
(* in-memory map file_status and saves it with save_json_file, which        *)
(* returns False (and leaves file_status.json as it was) when the write     *)
(* fails.                                                                   *)

MaxStoreCalls == 3      \* FileTracker calls of one behaviour

Statuses == {"pending", "downloading", "completed", "failed"}

\* File lists as hfd_importer builds them: every entry carries a status, a
\* completed one its actual_size.
ImportedListings ==
    UNION { { [i \in 1..n |->
                 IF st[i] = "completed"
                 THEN [filename |-> i, size |-> s[i], status |-> "completed",
                       actual_size |-> s[i]]
                 ELSE [filename |-> i, size |-> s[i], status |-> "pending"]] :
              s \in [1..n -> FileSizes], st \in [1..n -> {"pending", "completed"}] } :
            n \in 1..MaxTracked }

StoreListings == TaskListings \cup ImportedListings

\* Keyword arguments the callers of update_file_status pass.
UpdateKwargs ==
    {NoKwargs} \cup
    { [actual_size |-> s, downloaded_size |-> s] : s \in FileSizes }

\* _save_file_status: file_status.json after the save.
SaveFileStatus(map, persisted, ok) == IF ok THEN map ELSE persisted

\* What update_file_status returns.
UpdateFileStatusReturns(map, filename, ok) ==
    IF filename \notin DOMAIN map THEN FALSE ELSE ok

\* file_status.json after update_file_status.
UpdateFileStatusPersists(map, persisted, filename, status, kwargs, ok) ==
    IF filename \notin DOMAIN map THEN persisted
    ELSE SaveFileStatus(UpdateFileStatus(map, filename, status, kwargs),
                        persisted, ok)

\* file_status.json after verify_file_integrity: one save per file found on
\* disk, each with its own outcome.
RECURSIVE VerifyPersists(_, _, _, _, _)
VerifyPersists(names, map, persisted, on_disk, oks) ==
    IF names = <<>> THEN persisted
    ELSE LET filename == Head(names)
             after    == IF on_disk[filename] = Absent THEN map
                         ELSE UpdateFileStatus(map, filename,
                                  map[filename].status,
                                  [actual_size |-> on_disk[filename]])
         IN VerifyPersists(Tail(names), after,
                IF on_disk[filename] = Absent THEN persisted
                ELSE SaveFileStatus(after, persisted, oks[filename]),
                on_disk, oks)

\* The download directory of the store's behaviours: the first file is
\* present with the largest size, the others are absent.
StoreDisk == [f \in 1..MaxTracked |-> IF f = 1 THEN MaxFileSize ELSE Absent]

StoreInit ==
    /\ file_list = <<>>
    /\ is_dataset = FALSE
    /\ available_space = 0
    /\ safety_margin = 9
    /\ plan = NoPlan
    /\ prev_plan = NoPlan
    /\ plan_calls = 0
    /\ file_status = <<>>
    /\ disk = StoreDisk
    /\ moved_files_strategy = "skip"
    /\ phase = "idle"
    /\ exec_files = <<>>
    /\ pending_files = <<>>
    /\ moved_files = <<>>
    /\ quiet_runs = 0
    /\ changed_since = FALSE
    /\ BatchIdle
    /\ StoreIdle
    /\ download_return = NoReturn
    /\ TaskIdle
    /\ MonitorIdle
    /\ OtherIdle

\* initialize_file_list(file_list): returns nothing, whatever the save did.
TrackerInitialize ==
    /\ store_calls < MaxStoreCalls
    /\ \E listing \in StoreListings : \E ok \in BOOLEAN :
          LET after == InitializeFileList(file_status, listing)
          IN /\ file_status' = after
             /\ persisted_status' = SaveFileStatus(after, persisted_status, ok)
             /\ last_call' = [op |-> "initialize", listing |-> listing,
                              returned |-> "None"]
    /\ store_calls' = store_calls + 1
    /\ UNCHANGED <<disk, moved_files_strategy, phase, exec_files,
                   pending_files, moved_files, quiet_runs, changed_since>>
    /\ UNCHANGED <<plan_vars, batch_vars, download_return,
                   task_vars, monitor_vars, other_vars>>

\* update_file_status(filename, status, **kwargs)
TrackerUpdate ==
    /\ store_calls < MaxStoreCalls
    /\ \E filename \in 1..MaxTracked : \E status \in Statuses :
       \E kwargs \in UpdateKwargs : \E ok \in BOOLEAN :
          /\ file_status' = UpdateFileStatus(file_status, filename, status,
                                             kwargs)
          /\ persisted_status' =
                UpdateFileStatusPersists(file_status, persisted_status,
                                         filename, status, kwargs, ok)
          /\ last_call' =
                [op |-> "update", filename |-> filename,
                 returned |-> IF UpdateFileStatusReturns(file_status,
                                                         filename, ok)
                              THEN "True" ELSE "False"]
    /\ store_calls' = store_calls + 1
    /\ UNCHANGED <<disk, moved_files_strategy, phase, exec_files,
                   pending_files, moved_files, quiet_runs, changed_since>>
    /\ UNCHANGED <<plan_vars, batch_vars, download_return,
                   task_vars, monitor_vars, other_vars>>

\* mark_file_completed(filename, download_path): returns whether the file
\* exists; the result of the update it makes is dropped.
TrackerMarkCompleted ==
    /\ store_calls < MaxStoreCalls
    /\ \E filename \in 1..MaxTracked : \E ok \in BOOLEAN :
          LET after == MarkFileCompletedResult(file_status, filename,
                                               disk[filename])
          IN /\ file_status' = after
             /\ persisted_status' =
                   IF filename \in DOMAIN file_status
                   THEN SaveFileStatus(after, persisted_status, ok)
                   ELSE persisted_status
             /\ last_call' =
                   [op |-> "mark_completed", filename |-> filename,
                    returned |-> IF disk[filename] # Absent
                                 THEN "True" ELSE "False"]
    /\ store_calls' = store_calls + 1
    /\ UNCHANGED <<disk, moved_files_strategy, phase, exec_files,
                   pending_files, moved_files, quiet_runs, changed_since>>
    /\ UNCHANGED <<plan_vars, batch_vars, download_return,
                   task_vars, monitor_vars, other_vars>>

\* verify_file_integrity(download_path), as the verify command calls it.
TrackerVerify ==
    /\ store_calls < MaxStoreCalls
    /\ DOMAIN file_status # {}
    /\ \E oks \in [1..MaxTracked -> BOOLEAN] :
          /\ file_status' = VerifyFileIntegrityResult(file_status, disk)
          /\ persisted_status' =
                VerifyPersists(Keys(file_status), file_status,
                               persisted_status, disk, oks)
    /\ last_call' = [op |-> "verify", returned |-> "results"]
    /\ store_calls' = store_calls + 1
    /\ UNCHANGED <<disk, moved_files_strategy, phase, exec_files,
                   pending_files, moved_files, quiet_runs, changed_since>>
    /\ UNCHANGED <<plan_vars, batch_vars, download_return,
                   task_vars, monitor_vars, other_vars>>

\* The process ends and a new FileTracker(task_id) loads file_status.json.
TrackerReload ==
    /\ file_status # persisted_status
    /\ file_status' = persisted_status
    /\ last_call' = [op |-> "load", returned |-> "None"]
    /\ UNCHANGED <<persisted_status, store_calls>>
    /\ UNCHANGED <<disk, moved_files_strategy, phase, exec_files,
                   pending_files, moved_files, quiet_runs, changed_since>>
    /\ UNCHANGED <<plan_vars, batch_vars, download_return,
                   task_vars, monitor_vars, other_vars>>

StoreNext ==
    \/ TrackerInitialize
    \/ TrackerUpdate
    \/ TrackerMarkCompleted
    \/ TrackerVerify
    \/ TrackerReload

SpecStore == StoreInit /\ [][StoreNext]_vars

-----------------------------------------------------------------------------
(* DownloadManager._execute_download with the value it returns *)

ReturnCodes == {0, 1}       \* process.poll() after aria2c has exited

\* The agent has exited with return_code: the final scan runs and
\* _execute_download returns return_code == 0.
ExecuteDownloadReturns ==
    /\ phase = "executing"
    /\ \E return_code \in ReturnCodes :
          LET scan == CheckAndUpdateFileStatus(exec_files, file_status, disk)
          IN /\ file_status' = scan.file_status
             /\ download_return' =
                   [returned        |-> IF return_code = 0 THEN "True"
                                        ELSE "False",
                    return_code     |-> return_code,
                    file_list       |-> exec_files,
                    final_completed |-> scan.completed_count]
    /\ phase' = "idle"
    /\ exec_files' = <<>>
    /\ UNCHANGED <<disk, moved_files_strategy, pending_files, moved_files,
                   quiet_runs, changed_since>>
    /\ UNCHANGED <<plan_vars, batch_vars, store_vars, task_vars, monitor_vars, other_vars>>

TransferNext ==
    \/ StartFreshDownload
    \/ AgentWrite
    \/ MonitorScan
    \/ ExecuteDownloadReturns

SpecTransfer == ResumeInit /\ [][TransferNext]_vars

-----------------------------------------------------------------------------
(* The task list: tasks.json is written whole by every process that        *)
(* changes a task, from the copy of the list that process loaded.  The      *)
(* process that runs start_download loads its copy at the start of          *)
(* start_download and keeps it for the whole transfer; the cancel and       *)
(* resume commands are separate processes with their own copies.            *)

MaxCommands == 4        \* commands issued in one behaviour
MaxRetries == 3         \* 'max_retries': 3

TerminalStatuses == {"completed", "failed", "cancelled"}

\* create_task: the new entry of the task list
NewTask == [status |-> "pending", error_message |-> FALSE, retry_count |-> 0]

\* update_task_status(task_id, status, error_message): the message is
\* replaced only when one is given.
UpdateTaskStatus(task, status, has_message) ==
    [task EXCEPT !.status = status,
                 !.error_message = IF has_message THEN TRUE ELSE @]

\* cancel_task: refused for a task that is completed, failed or cancelled.
CancelTask(task) ==
    IF task.status \in TerminalStatuses THEN task
    ELSE UpdateTaskStatus(task, "cancelled", FALSE)

\* The download command up to create_task.
CreateTask ==
    /\ tasks_file = NoTask
    /\ commands < MaxCommands
    /\ tasks_file' = NewTask
    /\ dl_pc' = "starting"
    /\ start_return' = "none"
    /\ commands' = commands + 1
    /\ UNCHANGED <<dl_tasks, monitor_vars, other_vars>>
    /\ UNCHANGED <<plan_vars, resume_vars, batch_vars, store_vars,
                   download_return, other_vars>>

\* How a call of start_download goes on after it has reloaded the task list.
StartOutcomes ==
    {"capacity_critical",   \* 295-300: status failed with a message, False
     "raised",              \* 340-343: status failed with str(e), False
     "fresh_no_listing",    \* 353-355, 364-366: False, no status update
     "resume_raised",       \* 496-498: False, no status update
     "resume_nothing_pending", \* 473-479: status completed, True
     "execute_raised",      \* 678-680: False, no status update
     "agent_started"}       \* 562-572: the call stays in _execute_download

\* start_download from the reload of the task list (276) to the start of
\* the agent or to an early return.
StartDownload ==
    /\ dl_pc = "starting"
    /\ \E outcome \in StartOutcomes :
          LET running == UpdateTaskStatus(tasks_file, "running", FALSE)
              task ==
                  IF outcome \in {"capacity_critical", "raised"}
                  THEN UpdateTaskStatus(tasks_file, "failed", TRUE)
                  ELSE IF outcome = "resume_nothing_pending"
                  THEN UpdateTaskStatus(running, "completed", FALSE)
                  ELSE running
          IN /\ dl_tasks' = task
             /\ tasks_file' = task
             /\ IF outcome = "agent_started"
                THEN /\ dl_pc' = "transfer"
                     /\ agent' = "running"
                     /\ start_return' = start_return
                ELSE /\ dl_pc' = "done"
                     /\ agent' = agent
                     /\ start_return' =
                           IF outcome = "resume_nothing_pending" THEN "true"
                           ELSE "false"
    /\ UNCHANGED <<commands, mon_pc, main_pc, scans_after_exit>>
    /\ UNCHANGED <<plan_vars, resume_vars, batch_vars, store_vars,
                   download_return, other_vars>>

\* monitor_files reports progress: update_task_progress saves the task list
\* of the download process.
MonitorProgress ==
    /\ dl_pc = "transfer"
    /\ tasks_file' = dl_tasks
    /\ UNCHANGED <<dl_tasks, dl_pc, start_return, commands, monitor_vars, other_vars>>
    /\ UNCHANGED <<plan_vars, resume_vars, batch_vars, store_vars,
                   download_return, other_vars>>

\* The agent exits by itself.
AgentExits ==
    /\ agent = "running"
    /\ agent' \in {"exited_0", "exited_1"}
    /\ UNCHANGED <<task_vars, mon_pc, main_pc, scans_after_exit>>
    /\ UNCHANGED <<plan_vars, resume_vars, batch_vars, store_vars,
                   download_return, other_vars>>

\* _execute_download after the agent has ended (639-676): success is
\* return_code == 0; the status becomes completed only when the agent
\* returned 0 and the final scan counted every file, failed otherwise.
ExecuteCompletes ==
    /\ dl_pc = "transfer"
    /\ agent \in {"exited_0", "exited_1", "terminated"}
    /\ \E all_completed \in BOOLEAN :
          LET success == agent = "exited_0"
              task == IF success /\ all_completed
                      THEN UpdateTaskStatus(dl_tasks, "completed", FALSE)
                      ELSE UpdateTaskStatus(dl_tasks, "failed", TRUE)
          IN /\ dl_tasks' = task
             /\ tasks_file' = task
             /\ start_return' = IF success THEN "true" ELSE "false"
    /\ dl_pc' = "done"
    /\ UNCHANGED <<commands, monitor_vars, other_vars>>
    /\ UNCHANGED <<plan_vars, resume_vars, batch_vars, store_vars,
                   download_return, other_vars>>

\* The cancel command (main.py 570-575), a process of its own: it loads the
\* task list and calls cancel_task.  It does not reach the subprocess.
CancelCommand ==
    /\ tasks_file # NoTask
    /\ commands < MaxCommands
    /\ tasks_file' = CancelTask(tasks_file)
    /\ commands' = commands + 1
    /\ UNCHANGED <<dl_tasks, dl_pc, start_return, monitor_vars, other_vars>>
    /\ UNCHANGED <<plan_vars, resume_vars, batch_vars, store_vars,
                   download_return, other_vars>>

\* cancel_download (862-870) called inside the download process while the
\* task is in running_tasks: the subprocess is terminated, then cancel_task
\* works on the task list of that process.  No command calls it.
CancelDownload ==
    /\ dl_pc = "transfer"
    /\ commands < MaxCommands
    /\ agent' = IF agent = "running" THEN "terminated" ELSE agent
    /\ dl_tasks' = CancelTask(dl_tasks)
    /\ tasks_file' = IF dl_tasks.status \in TerminalStatuses THEN tasks_file
                     ELSE CancelTask(dl_tasks)
    /\ commands' = commands + 1
    /\ UNCHANGED <<dl_pc, start_return, mon_pc, main_pc, scans_after_exit>>
    /\ UNCHANGED <<plan_vars, resume_vars, batch_vars, store_vars,
                   download_return, other_vars>>

\* The resume command (main.py 577-633) on a task whose download process
\* has ended: whatever the status, it is reset to pending (for completed
\* and running after the operator's 'y'), then start_download is called.
ResumeCommand ==
    /\ tasks_file # NoTask
    /\ dl_pc = "done"
    /\ commands < MaxCommands
    /\ tasks_file' = UpdateTaskStatus(tasks_file, "pending", FALSE)
    /\ dl_pc' = "starting"
    /\ start_return' = "none"
    /\ agent' = "none"
    /\ commands' = commands + 1
    /\ UNCHANGED <<dl_tasks, mon_pc, main_pc, scans_after_exit>>
    /\ UNCHANGED <<plan_vars, resume_vars, batch_vars, store_vars,
                   download_return, other_vars>>

\* retry_task (141-161): a failed task below max_retries becomes pending.
RetryTask ==
    /\ tasks_file.status = "failed"
    /\ tasks_file.retry_count < MaxRetries
    /\ dl_pc = "done"
    /\ commands < MaxCommands
    /\ tasks_file' = [status        |-> "pending",
                      error_message |-> FALSE,
                      retry_count   |-> tasks_file.retry_count + 1]
    /\ commands' = commands + 1
    /\ UNCHANGED <<dl_tasks, dl_pc, start_return, monitor_vars, other_vars>>
    /\ UNCHANGED <<plan_vars, resume_vars, batch_vars, store_vars,
                   download_return, other_vars>>

TaskInit == ResumeInit

TaskNext ==
    \/ CreateTask
    \/ StartDownload
    \/ MonitorProgress
    \/ AgentExits
    \/ ExecuteCompletes
    \/ CancelCommand
    \/ CancelDownload
    \/ ResumeCommand
    \/ RetryTask

SpecTask == TaskInit /\ [][TaskNext]_vars

-----------------------------------------------------------------------------
(* The threads of _execute_download: the main path reads the agent's        *)
(* output until it has exited, joins the monitor thread for at most five    *)
(* seconds, and runs the final scan; monitor_files sleeps and scans while   *)
(* the agent runs.  Both scans work on the same FileTracker, and no lock    *)
(* is taken anywhere.  A scan is modelled by its begin and its end; its     *)
(* updates take effect at the end.                                          *)

MaxLateScans == 2       \* scans_after_exit is counted up to this value

\* while process.poll() is None, without the exit test
ProcessRunningAlways(process) == TRUE

\* while process.poll() is None
ProcessRunning(process) == process = "running"

\* The state after Popen and monitor_thread.start(): a fresh download of a
\* listing, nothing on disk yet.
MonitorInit ==
    /\ file_list = <<>>
    /\ is_dataset = FALSE
    /\ available_space = 0
    /\ safety_margin = DefaultSafetyMargin
    /\ plan = NoPlan
    /\ prev_plan = NoPlan
    /\ plan_calls = 0
    /\ \E listing \in TaskListings :
          /\ file_status = InitializeFileList(<<>>, listing)
          /\ exec_files = listing
    /\ disk = [f \in 1..MaxTracked |-> Absent]
    /\ moved_files_strategy = "skip"
    /\ phase = "executing"
    /\ pending_files = <<>>
    /\ moved_files = <<>>
    /\ quiet_runs = 0
    /\ changed_since = TRUE
    /\ BatchIdle
    /\ StoreIdle
    /\ download_return = NoReturn
    /\ TaskIdle
    /\ agent = "running"
    /\ mon_pc = "poll"
    /\ main_pc = "read"
    /\ scans_after_exit = 0
    /\ OtherIdle

\* The agent writes a file while it runs.
RunningAgentWrites ==
    /\ agent = "running"
    /\ AgentWrite

\* monitor_files: the test of the while loop.
MonitorPolls ==
    /\ mon_pc = "poll"
    /\ mon_pc' = IF ProcessRunning(agent) THEN "sleep" ELSE "done"
    /\ UNCHANGED <<agent, main_pc, scans_after_exit>>
    /\ UNCHANGED <<plan_vars, resume_vars, batch_vars, store_vars,
                   download_return, task_vars, other_vars>>

\* monitor_files: time.sleep(5) is over, the scan begins.
MonitorScanBegins ==
    /\ mon_pc = "sleep"
    /\ mon_pc' = "scan"
    /\ UNCHANGED <<agent, main_pc, scans_after_exit>>
    /\ UNCHANGED <<plan_vars, resume_vars, batch_vars, store_vars,
                   download_return, task_vars, other_vars>>

\* monitor_files: the scan is through, back to the test of the loop.
MonitorScanEnds ==
    /\ mon_pc = "scan"
    /\ file_status' =
          CheckAndUpdateFileStatus(exec_files, file_status, disk).file_status
    /\ mon_pc' = "poll"
    /\ scans_after_exit' =
          IF agent # "running" /\ scans_after_exit < MaxLateScans
          THEN scans_after_exit + 1 ELSE scans_after_exit
    /\ UNCHANGED <<agent, main_pc>>
    /\ UNCHANGED <<disk, moved_files_strategy, phase, exec_files,
                   pending_files, moved_files, quiet_runs, changed_since>>
    /\ UNCHANGED <<plan_vars, batch_vars, store_vars, download_return,
                   task_vars, other_vars>>

\* Main path: readline returns '' and poll() is not None; the monitor
\* thread is joined only if it is alive.
StdoutEnds ==
    /\ main_pc = "read"
    /\ agent # "running"
    /\ main_pc' = IF mon_pc # "done" THEN "join" ELSE "final_scan"
    /\ UNCHANGED <<agent, mon_pc, scans_after_exit>>
    /\ UNCHANGED <<plan_vars, resume_vars, batch_vars, store_vars,
                   download_return, task_vars, other_vars>>

\* Main path: monitor_thread.join(timeout=5) returns, because the thread
\* has ended or because five seconds have passed; the final scan begins.
JoinReturns ==
    /\ main_pc = "join"
    /\ main_pc' = "final_scan"
    /\ UNCHANGED <<agent, mon_pc, scans_after_exit>>
    /\ UNCHANGED <<plan_vars, resume_vars, batch_vars, store_vars,
                   download_return, task_vars, other_vars>>

\* Main path: the final scan is through and _execute_download returns.
FinalScanEnds ==
    /\ main_pc = "final_scan"
    /\ LET scan == CheckAndUpdateFileStatus(exec_files, file_status, disk)
           return_code == IF agent = "exited_0" THEN 0 ELSE 1
       IN /\ file_status' = scan.file_status
          /\ download_return' =
                [returned        |-> IF return_code = 0 THEN "True"
                                     ELSE "False",
                 return_code     |-> return_code,
                 file_list       |-> exec_files,
                 final_completed |-> scan.completed_count]
    /\ main_pc' = "returned"
    /\ UNCHANGED <<agent, mon_pc, scans_after_exit>>
    /\ UNCHANGED <<disk, moved_files_strategy, phase, exec_files,
                   pending_files, moved_files, quiet_runs, changed_since>>
    /\ UNCHANGED <<plan_vars, batch_vars, store_vars, task_vars, other_vars>>

MainStep ==
    \/ StdoutEnds
    \/ JoinReturns
    \/ FinalScanEnds

MonitorNext ==
    \/ RunningAgentWrites
    \/ AgentExits
    \/ MonitorPolls
    \/ MonitorScanBegins
    \/ MonitorScanEnds
    \/ StdoutEnds
    \/ JoinReturns
    \/ FinalScanEnds

SpecMonitor == MonitorInit /\ [][MonitorNext]_vars

\* The main path is a running thread: readline returns at end of file, the
\* join returns after five seconds at the latest, a scan is a finite loop.
SpecMonitorFair == SpecMonitor /\ WF_vars(MainStep)

-----------------------------------------------------------------------------
(* Task identifiers: create_task names a task after the clock second.       *)

MaxClock == 5           \* the clock runs from 0 to MaxClock seconds
MaxTasks == 3           \* tasks created in one behaviour

\* task_id = f"task_{int(time.time())}"
TaskId(time) == time

\* create_task: the new task is appended to the list under the id of the
\* current second; the list is not searched for that id.
CreateTaskId ==
    /\ Len(registry) < MaxTasks
    /\ registry' = Append(registry, TaskId(now))
    /\ UNCHANGED <<hfd_files, now, stamps, enumeration>>
    /\ UNCHANGED <<plan_vars, resume_vars, batch_vars, store_vars,
                   download_return, task_vars, monitor_vars>>

\* A second passes.
ClockTick ==
    /\ now < MaxClock
    /\ now' = now + 1
    /\ UNCHANGED <<hfd_files, stamps, registry, enumeration>>
    /\ UNCHANGED <<plan_vars, resume_vars, batch_vars, store_vars,
                   download_return, task_vars, monitor_vars>>

IdsNext ==
    \/ CreateTaskId
    \/ ClockTick

SpecIds == ResumeInit /\ [][IdsNext]_vars

-----------------------------------------------------------------------------
(* The timestamps of one file record.  A timestamp is the clock second     *)
(* plus one, so that Unstamped stands for None.                              *)

Unstamped == 0

\* get_current_timestamp()
GetCurrentTimestamp(time) == time + 1

\* What a check of the file on disk can find.
Observations == {"absent", "partial", "complete"}

\* initialize_file_list: the record of a file listed as pending.
TrackedStamps ==
    [status |-> "pending", started_at |-> Unstamped,
     completed_at |-> Unstamped]

\* update_file_status: the status is set, started_at is stamped when the
\* status is downloading and no stamp is there, completed_at is stamped when
\* the status is completed or failed; afterwards every keyword argument that
\* names a field of the record replaces that field.
UpdateFileStamps(info, status, kwargs, time) ==
    LET set == [info EXCEPT !.status = status]
        stamped ==
            IF status = "downloading" /\ set.started_at = Unstamped
            THEN [set EXCEPT !.started_at = GetCurrentTimestamp(time)]
            ELSE IF status \in {"completed", "failed"}
                 THEN [set EXCEPT !.completed_at = GetCurrentTimestamp(time)]
                 ELSE set
    IN  [key \in DOMAIN stamped |->
            IF key \in DOMAIN kwargs THEN kwargs[key] ELSE stamped[key]]

\* _check_and_update_file_status on the record: a completed record is
\* skipped; a file of the expected size is completed; a partial file is
\* downloading, and the first detection passes started_at as a keyword.
ScanStamps(info, observation, time) ==
    IF info.status = "completed" THEN info
    ELSE IF observation = "complete"
         THEN UpdateFileStamps(info, "completed", NoKwargs, time)
    ELSE IF observation = "partial"
         THEN IF info.status # "downloading"
              THEN UpdateFileStamps(info, "downloading",
                       [key \in {"started_at"} |-> GetCurrentTimestamp(time)],
                       time)
              ELSE UpdateFileStamps(info, "downloading", NoKwargs, time)
    ELSE IF info.status = "downloading"
         THEN UpdateFileStamps(info, "downloading", NoKwargs, time)
         ELSE info

\* The reconciliation of _resume_smart_download on the record.
ResumeStamps(info, observation, strategy, time) ==
    IF observation = "complete"
    THEN IF info.status # "completed"
         THEN UpdateFileStamps(info, "completed", NoKwargs, time)
         ELSE info
    ELSE IF observation = "partial"
         THEN UpdateFileStamps(info, "pending", NoKwargs, time)
    ELSE IF info.status = "completed"
         THEN IF strategy = "redownload"
              THEN UpdateFileStamps(info, "pending", NoKwargs, time)
              ELSE info
         ELSE UpdateFileStamps(info, "pending", NoKwargs, time)

\* initialize_file_list tracks the file.
TrackFile ==
    /\ stamps = NoStamps
    /\ stamps' = TrackedStamps
    /\ UNCHANGED <<hfd_files, now, registry, enumeration>>
    /\ UNCHANGED <<plan_vars, resume_vars, batch_vars, store_vars,
                   download_return, task_vars, monitor_vars>>

\* A status scan of the running transfer.
ScanFile ==
    /\ stamps # NoStamps
    /\ \E observation \in Observations :
            stamps' = ScanStamps(stamps, observation, now)
    /\ UNCHANGED <<hfd_files, now, registry, enumeration>>
    /\ UNCHANGED <<plan_vars, resume_vars, batch_vars, store_vars,
                   download_return, task_vars, monitor_vars>>

\* A resume reconciles the record with the disk.
ResumeFile ==
    /\ stamps # NoStamps
    /\ \E observation \in Observations, strategy \in Strategies :
            stamps' = ResumeStamps(stamps, observation, strategy, now)
    /\ UNCHANGED <<hfd_files, now, registry, enumeration>>
    /\ UNCHANGED <<plan_vars, resume_vars, batch_vars, store_vars,
                   download_return, task_vars, monitor_vars>>

\* verify_file_integrity: a file that exists gets its status set again.
VerifyFile ==
    /\ stamps # NoStamps
    /\ stamps' = UpdateFileStamps(stamps, stamps.status, NoKwargs, now)
    /\ UNCHANGED <<hfd_files, now, registry, enumeration>>
    /\ UNCHANGED <<plan_vars, resume_vars, batch_vars, store_vars,
                   download_return, task_vars, monitor_vars>>

StampsNext ==
    \/ TrackFile
    \/ ScanFile
    \/ ResumeFile
    \/ VerifyFile
    \/ ClockTick

SpecStamps == ResumeInit /\ [][StampsNext]_vars

-----------------------------------------------------------------------------
(* _get_file_list_with_timeout: a daemon thread enumerates the repository   *)
(* while the caller joins it for at most the timeout.                        *)

MaxRequests == 4        \* requests one enumeration makes to the remote
Timeout == 2            \* seconds join(timeout) waits at most

\* thread.start(): the thread runs, the caller waits in join(timeout).
StartEnumeration ==
    /\ enumeration = NoEnumeration
    /\ enumeration' = [thread |-> "alive", requests |-> 0, result |-> "None",
                       caller |-> "joining", returned |-> "nothing",
                       waited |-> 0]
    /\ UNCHANGED <<hfd_files, now, stamps, registry>>
    /\ UNCHANGED <<plan_vars, resume_vars, batch_vars, store_vars,
                   download_return, task_vars, monitor_vars>>

\* get_files: _get_file_list sends one more request.  Nothing in the thread
\* looks at the caller.
EnumerationRequest ==
    /\ enumeration # NoEnumeration
    /\ enumeration.thread = "alive"
    /\ enumeration.requests < MaxRequests
    /\ enumeration' = [enumeration EXCEPT !.requests = @ + 1]
    /\ UNCHANGED <<hfd_files, now, stamps, registry>>
    /\ UNCHANGED <<plan_vars, resume_vars, batch_vars, store_vars,
                   download_return, task_vars, monitor_vars>>

\* get_files ends: the listing is stored in result[0], or the exception in
\* error[0].
EnumerationEnds ==
    /\ enumeration # NoEnumeration
    /\ enumeration.thread = "alive"
    /\ \E outcome \in {"listing", "empty", "error"} :
            enumeration' =
                [enumeration EXCEPT
                    !.thread = IF outcome = "error" THEN "raised"
                               ELSE "finished",
                    !.result = IF outcome = "error" THEN "None"
                               ELSE outcome]
    /\ UNCHANGED <<hfd_files, now, stamps, registry>>
    /\ UNCHANGED <<plan_vars, resume_vars, batch_vars, store_vars,
                   download_return, task_vars, monitor_vars>>

\* A second of join(timeout) passes while the thread is alive.
JoinWaits ==
    /\ enumeration # NoEnumeration
    /\ enumeration.caller = "joining"
    /\ enumeration.thread = "alive"
    /\ enumeration.waited < Timeout
    /\ enumeration' = [enumeration EXCEPT !.waited = @ + 1]
    /\ UNCHANGED <<hfd_files, now, stamps, registry>>
    /\ UNCHANGED <<plan_vars, resume_vars, batch_vars, store_vars,
                   download_return, task_vars, monitor_vars>>

\* join(timeout) returns at the timeout while the thread is alive: the
\* caller returns [].  The thread is not told.
JoinTimesOut ==
    /\ enumeration # NoEnumeration
    /\ enumeration.caller = "joining"
    /\ enumeration.thread = "alive"
    /\ enumeration.waited = Timeout
    /\ enumeration' = [enumeration EXCEPT !.caller = "timed_out",
                                          !.returned = "empty"]
    /\ UNCHANGED <<hfd_files, now, stamps, registry>>
    /\ UNCHANGED <<plan_vars, resume_vars, batch_vars, store_vars,
                   download_return, task_vars, monitor_vars>>

\* join returns because the thread ended: the error is raised again, or
\* result[0] or [] is returned.
JoinEnds ==
    /\ enumeration # NoEnumeration
    /\ enumeration.caller = "joining"
    /\ enumeration.thread \in {"finished", "raised"}
    /\ enumeration' =
            IF enumeration.thread = "raised"
            THEN [enumeration EXCEPT !.caller = "raised"]
            ELSE [enumeration EXCEPT !.caller = "returned",
                                     !.returned = enumeration.result]
    /\ UNCHANGED <<hfd_files, now, stamps, registry>>
    /\ UNCHANGED <<plan_vars, resume_vars, batch_vars, store_vars,
                   download_return, task_vars, monitor_vars>>

\* The command ends after the caller got its answer: the interpreter does
\* not wait for a daemon thread.
ProcessExits ==
    /\ enumeration # NoEnumeration
    /\ enumeration.caller \in {"timed_out", "returned", "raised"}
    /\ enumeration' = [enumeration EXCEPT
                          !.caller = "exited",
                          !.thread = IF @ = "alive" THEN "killed" ELSE @]
    /\ UNCHANGED <<hfd_files, now, stamps, registry>>
    /\ UNCHANGED <<plan_vars, resume_vars, batch_vars, store_vars,
                   download_return, task_vars, monitor_vars>>

EnumerationNext ==
    \/ StartEnumeration
    \/ JoinWaits
    \/ ProcessExits
    \/ EnumerationRequest
    \/ EnumerationEnds
    \/ JoinTimesOut
    \/ JoinEnds

SpecEnumeration == ResumeInit /\ [][EnumerationNext]_vars

-----------------------------------------------------------------------------
(* One task with its store, its download directory and its status in the   *)
(* task list, for ordinary tasks and for tasks imported from an HFD          *)
(* download.                                                                 *)

\* _build_complete_file_list: a file with a download configuration is
\* pending, every other file of the repository is completed.
HfdEntry(filename, size, status) ==
    IF status = "completed"
    THEN [filename |-> filename, size |-> size, status |-> status,
          actual_size |-> size]
    ELSE [filename |-> filename, size |-> size, status |-> status]

HfdListings ==
    UNION { { [i \in 1..n |-> HfdEntry(i, s[i], st[i])] :
              s \in [1..n -> FileSizes],
              st \in [1..n -> {"pending", "completed"}] } :
            n \in 1..MaxTracked }

\* [f for f in task['hfd_complete_files'] if f.get('status') == 'pending']
HfdPending(files) ==
    SelectSeq(files, LAMBDA f : Get(f, "status", "none") = "pending")

\* _execute_download, completed on success whatever the final scan counted
FinalTaskStatusOnSuccess(task, return_code, final_completed, total) ==
    IF return_code = 0
    THEN UpdateTaskStatus(task, "completed", FALSE)
    ELSE UpdateTaskStatus(task, "failed", TRUE)

\* _execute_download after the final scan: completed when the agent
\* succeeded and the scan counted every file it was handed, else failed.
FinalTaskStatus(task, return_code, final_completed, total) ==
    IF return_code = 0 /\ final_completed = total
    THEN UpdateTaskStatus(task, "completed", FALSE)
    ELSE UpdateTaskStatus(task, "failed", TRUE)

\* The download command creates an ordinary task.
CreateOrdinaryTask ==
    /\ tasks_file = NoTask
    /\ tasks_file' = NewTask
    /\ UNCHANGED <<dl_tasks, dl_pc, start_return, commands>>
    /\ UNCHANGED <<plan_vars, resume_vars, batch_vars, store_vars,
                   download_return, monitor_vars, other_vars>>

\* The import of an HFD download creates a task that carries the complete
\* file list; the files it lists as completed are in the directory.
ImportHfdTask ==
    /\ tasks_file = NoTask
    /\ tasks_file' = NewTask
    /\ \E listing \in HfdListings :
          /\ hfd_files' = listing
          /\ disk' = [f \in DOMAIN disk |->
                        IF /\ f \in 1..Len(listing)
                           /\ listing[f].status = "completed"
                        THEN listing[f].size ELSE disk[f]]
    /\ UNCHANGED <<file_status, moved_files_strategy, phase, exec_files,
                   pending_files, moved_files, quiet_runs, changed_since>>
    /\ UNCHANGED <<dl_tasks, dl_pc, start_return, commands>>
    /\ UNCHANGED <<now, stamps, registry, enumeration>>
    /\ UNCHANGED <<plan_vars, batch_vars, store_vars, download_return,
                   monitor_vars>>

\* start_download, as the download and resume commands call it, up to the
\* start of the agent: the status becomes running; an imported task without
\* records initializes the store from its list and hands over the entries
\* listed as pending; an imported task with records hands over the same
\* entries; an ordinary task with records is reconciled and is completed
\* when nothing is pending; an ordinary task without records is started
\* fresh.
StartDownloadTask ==
    /\ tasks_file # NoTask
    /\ phase = "idle"
    /\ \E strategy \in Strategies, critical \in BOOLEAN :
          /\ moved_files_strategy' = strategy
          /\ IF critical
             THEN /\ tasks_file' = UpdateTaskStatus(tasks_file, "failed", TRUE)
                  /\ UNCHANGED <<file_status, phase, exec_files,
                                 pending_files, moved_files>>
             ELSE IF hfd_files # <<>>
             THEN /\ tasks_file' =
                        UpdateTaskStatus(tasks_file, "running", FALSE)
                  /\ file_status' =
                        IF DOMAIN file_status = {}
                        THEN InitializeFileList(file_status, hfd_files)
                        ELSE file_status
                  /\ exec_files' = HfdPending(hfd_files)
                  /\ phase' = "executing"
                  /\ UNCHANGED <<pending_files, moved_files>>
             ELSE IF DOMAIN file_status # {}
             THEN LET r == Reconcile(file_status, disk, strategy)
                  IN /\ file_status' = r.file_status
                     /\ pending_files' = r.pending_files
                     /\ moved_files' = r.moved_files
                     /\ IF Len(r.pending_files) = 0
                        THEN /\ phase' = "idle"
                             /\ exec_files' = <<>>
                             /\ tasks_file' =
                                   UpdateTaskStatus(tasks_file, "completed",
                                                    FALSE)
                        ELSE /\ phase' = "executing"
                             /\ exec_files' = r.pending_files
                             /\ tasks_file' =
                                   UpdateTaskStatus(tasks_file, "running",
                                                    FALSE)
             ELSE \E listing \in TaskListings :
                     /\ tasks_file' =
                           UpdateTaskStatus(tasks_file, "running", FALSE)
                     /\ file_status' = InitializeFileList(file_status, listing)
                     /\ exec_files' = listing
                     /\ phase' = "executing"
                     /\ UNCHANGED <<pending_files, moved_files>>
    /\ UNCHANGED <<disk, quiet_runs, changed_since>>
    /\ UNCHANGED <<dl_tasks, dl_pc, start_return, commands>>
    /\ UNCHANGED <<plan_vars, batch_vars, store_vars, download_return,
                   monitor_vars, other_vars>>

\* The agent has exited with return_code: the final scan of
\* _execute_download over the files it was handed, and the task status that
\* follows from its count.
ExecuteDownloadEnds ==
    /\ phase = "executing"
    /\ \E return_code \in ReturnCodes :
          LET scan == CheckAndUpdateFileStatus(exec_files, file_status, disk)
          IN /\ file_status' = scan.file_status
             /\ tasks_file' =
                   FinalTaskStatus(tasks_file, return_code,
                                   scan.completed_count, Len(exec_files))
    /\ phase' = "idle"
    /\ exec_files' = <<>>
    /\ UNCHANGED <<disk, moved_files_strategy, pending_files, moved_files,
                   quiet_runs, changed_since>>
    /\ UNCHANGED <<dl_tasks, dl_pc, start_return, commands>>
    /\ UNCHANGED <<plan_vars, batch_vars, store_vars, download_return,
                   monitor_vars, other_vars>>

InventoryNext ==
    \/ CreateOrdinaryTask
    \/ ImportHfdTask
    \/ StartDownloadTask
    \/ AgentWrite
    \/ MonitorScan
    \/ ExecuteDownloadEnds
    \/ ExecuteDownloadFails
    \/ OperatorMovesFile

SpecInventory == ResumeInit /\ [][InventoryNext]_vars

-----------------------------------------------------------------------------
(* Properties of the planner, checked under SpecPlan *)

Planned == plan.strategy # "none"

PlanSafeSpace == SafeSpace(available_space, safety_margin)

Occurrences(seq, f) == Cardinality({i \in 1..Len(seq) : seq[i] = f})

C2_BatchWithinSafeCapacity ==
    Planned =>
        \A b \in 1..Len(plan.batches) :
            LET batch == plan.batches[b]
            IN \/ Len(batch.files) = 1
               \/ /\ SumSizes(batch.files) <= PlanSafeSpace
                  /\ batch.size <= PlanSafeSpace

C2_Witness ==
    /\ plan.strategy = "multi_batch"
    /\ \E b \in 1..Len(plan.batches) : plan.batches[b].note = OversizeNote
    /\ \E b \in 1..Len(plan.batches) :
          /\ Len(plan.batches[b].files) >= 2
          /\ SumSizes(plan.batches[b].files) = PlanSafeSpace

\* C3: in a multi-batch plan a file is alone in a batch carrying the
\* oversize note exactly when its size is strictly above safeCapacity; a
\* file of exactly safeCapacity is in a batch without the note; no batch
\* listed before an oversize batch holds a file that sorts after the
\* oversize file (the open batch was closed first); and sizes
\* [5000, 100, 100] under safeCapacity 1000 give {5000} then {100, 100}.
C3_OversizeHandling ==
    plan.strategy = "multi_batch" =>
        LET batches == plan.batches
            InNoteBatch(f) ==
                \E b \in 1..Len(batches) :
                    /\ batches[b].files = <<f>>
                    /\ batches[b].note = OversizeNote
        IN /\ \A i \in 1..Len(file_list) :
                 InNoteBatch(file_list[i]) <=> file_list[i].size > PlanSafeSpace
           /\ \A b \in 1..Len(batches) :
                 batches[b].note = OversizeNote =>
                    /\ Len(batches[b].files) = 1
                    /\ batches[b].size = batches[b].files[1].size
           /\ \A i \in 1..Len(file_list) :
                 file_list[i].size = PlanSafeSpace =>
                    \E b \in 1..Len(batches) :
                        /\ \E k \in 1..Len(batches[b].files) :
                              batches[b].files[k] = file_list[i]
                        /\ batches[b].note = NoNote
           /\ \A b \in 1..Len(batches) : \A a \in 1..(b - 1) :
                 batches[b].note = OversizeNote =>
                    \A k \in 1..Len(batches[a].files) :
                        batches[a].files[k].size >= batches[b].size
           /\ ( /\ Len(file_list) = 3
                /\ file_list[1].size = 5000
                /\ file_list[2].size = 100
                /\ file_list[3].size = 100
                /\ PlanSafeSpace = 1000 )
              => batches = << [files |-> <<file_list[1]>>, size |-> 5000,
                               note |-> OversizeNote],
                              [files |-> <<file_list[2], file_list[3]>>,
                               size |-> 200, note |-> NoNote] >>

C3_Witness ==
    /\ plan.strategy = "multi_batch"
    /\ Len(file_list) = 3
    /\ file_list[1].size = 5000
    /\ file_list[2].size = 100
    /\ file_list[3].size = 100
    /\ PlanSafeSpace = 1000
    /\ Len(plan.batches) = 2

C3_WitnessExactFit ==
    /\ plan.strategy = "multi_batch"
    /\ \E i \in 1..Len(file_list) :
          /\ file_list[i].size = PlanSafeSpace
          /\ file_list[i].size > 0

\* C4 (as claimed): when the inventory's total size is at most safeCapacity
\* the plan is single_batch with exactly one batch holding every file, and a
\* multi_batch plan is produced only when the total exceeds safeCapacity.
C4_SingleBatchThreshold ==
    Planned =>
        /\ SumSizes(file_list) <= PlanSafeSpace =>
              /\ plan.strategy = "single_batch"
              /\ Len(plan.batches) = 1
              /\ plan.batches[1].files = file_list
        /\ plan.strategy = "multi_batch" => SumSizes(file_list) > PlanSafeSpace

\* C5: planning again on the same listing, capacity and margin returns the
\* same plan, and the plan is fixed by the input alone: a single batch lists
\* the files in listing order; across a multi-batch plan they run by
\* descending size, files of equal size in listing order, and a batch ends
\* only before an oversize file, after one, or where the next file no
\* longer fits.
C5_PlannerDeterministic ==
    /\ plan_calls >= 2 => plan = prev_plan
    /\ plan.strategy = "single_batch" => plan.batches[1].files = file_list
    /\ plan.strategy = "multi_batch" =>
          LET all == Flatten(plan.batches)
              batches == plan.batches
          IN /\ \A i \in 1..Len(all) : \A j \in (i + 1)..Len(all) :
                   \/ all[i].size > all[j].size
                   \/ /\ all[i].size = all[j].size
                      /\ all[i].filename < all[j].filename
             /\ \A b \in 2..Len(batches) :
                   \/ batches[b].note = OversizeNote
                   \/ batches[b - 1].note = OversizeNote
                   \/ batches[b - 1].size + batches[b].files[1].size
                         > PlanSafeSpace
             /\ \A b \in 1..Len(batches) :
                   /\ batches[b].files # <<>>
                   /\ batches[b].size = SumSizes(batches[b].files)

C5_Witness ==
    /\ plan_calls = 2
    /\ plan.strategy = "multi_batch"
    /\ Len(plan.batches) >= 2
    /\ \E i \in 1..Len(file_list) : \E j \in (i + 1)..Len(file_list) :
          /\ file_list[i].size = file_list[j].size
          /\ file_list[i].size <= PlanSafeSpace

\* C6 (as claimed): planning an empty inventory yields strategy single_batch
\* with zero batches and size 0.
C6_EmptyInventoryPlan ==
    (Planned /\ file_list = <<>>) =>
        /\ plan.strategy = "single_batch"
        /\ plan.total_batches = 0
        /\ plan.batches = <<>>
        /\ \A b \in 1..Len(plan.batches) : plan.batches[b].size = 0

-----------------------------------------------------------------------------
(* Properties of the reconciliation, checked under SpecResume *)

InList(list, filename) ==
    \E i \in 1..Len(list) : list[i].filename = filename

TimesIn(list, filename) ==
    Cardinality({i \in 1..Len(list) : list[i].filename = filename})

\* C7: a reconciliation that follows another one with no change of the
\* filesystem, of the moved-files policy or of the store from outside the
\* resume in between (the first resume's own scans included) returns the
\* pending work the first one returned, under either policy.
C7_ReconcileIdempotent ==
    [][ (ResumeSmartDownload /\ quiet_runs >= 1 /\ ~changed_since)
        => pending_files' = pending_files ]_vars

C7_Witness ==
    /\ quiet_runs = 2
    /\ ~changed_since
    /\ moved_files_strategy = "redownload"
    /\ Len(pending_files) = 2
    /\ \E f \in DOMAIN file_status : disk[f] = Absent
    /\ \E f \in DOMAIN file_status :
          disk[f] # Absent /\ disk[f] # file_status[f].expected_size

C7_WitnessSkip ==
    /\ quiet_runs = 2
    /\ ~changed_since
    /\ moved_files_strategy = "skip"
    /\ Len(moved_files) = 1
    /\ Len(pending_files) = 1

\* C8: under policy skip a reconciliation leaves a record that is tracked
\* completed and absent on disk as it was (status completed), keeps it out
\* of the pending work and of the files handed to the transfer agent, and
\* lists it once in the moved-files report.
C8_MovedFileSkip ==
    [][ ResumeSmartDownload =>
          \A f \in DOMAIN file_status :
             ( /\ file_status[f].status = "completed"
               /\ disk[f] = Absent
               /\ moved_files_strategy = "skip" )
             => /\ file_status'[f] = file_status[f]
                /\ file_status'[f].status = "completed"
                /\ ~InList(pending_files', f)
                /\ ~InList(exec_files', f)
                /\ TimesIn(moved_files', f) = 1 ]_vars

C8_Witness ==
    /\ quiet_runs >= 1
    /\ ~changed_since
    /\ moved_files_strategy = "skip"
    /\ phase = "executing"
    /\ \E f \in DOMAIN file_status :
          /\ file_status[f].status = "completed"
          /\ disk[f] = Absent
          /\ InList(moved_files, f)
          /\ ~InList(pending_files, f)

\* C9: under policy redownload a reconciliation turns a record that is
\* tracked completed and absent on disk to pending and puts it, once, in the
\* pending work handed to the transfer agent.
C9_MovedFileRedownload ==
    [][ ResumeSmartDownload =>
          \A f \in DOMAIN file_status :
             ( /\ file_status[f].status = "completed"
               /\ disk[f] = Absent
               /\ moved_files_strategy = "redownload" )
             => /\ file_status'[f].status = "pending"
                /\ TimesIn(pending_files', f) = 1
                /\ InList(exec_files', f)
                /\ phase' = "executing" ]_vars

C9_Witness ==
    /\ quiet_runs >= 1
    /\ ~changed_since
    /\ moved_files_strategy = "redownload"
    /\ phase = "executing"
    /\ \E f \in DOMAIN file_status :
          /\ file_status[f].status = "pending"
          /\ disk[f] = Absent
          /\ InList(moved_files, f)
          /\ InList(pending_files, f)

\* C10: a reconciliation sets a tracked file that is on disk with a size
\* other than its expected size (> 0) to pending, whatever its status was,
\* leaves its expected size alone, and lists it once in the pending work
\* with that expected size.
C10_SizeMismatchRequeue ==
    [][ ResumeSmartDownload =>
          \A f \in DOMAIN file_status :
             ( /\ disk[f] # Absent
               /\ file_status[f].expected_size > 0
               /\ disk[f] # file_status[f].expected_size )
             => /\ file_status'[f].status = "pending"
                /\ file_status'[f].expected_size = file_status[f].expected_size
                /\ TimesIn(pending_files', f) = 1
                /\ \E i \in 1..Len(pending_files') :
                      pending_files'[i] =
                          [filename |-> f,
                           size |-> file_status[f].expected_size] ]_vars

C10_Witness ==
    /\ quiet_runs >= 1
    /\ ~changed_since
    /\ phase = "executing"
    /\ \E f \in DOMAIN file_status :
          /\ disk[f] = 1
          /\ file_status[f].expected_size = 2
          /\ file_status[f].status = "pending"
          /\ file_status[f].actual_size = 2
          /\ \E i \in 1..Len(pending_files) :
                pending_files[i] = [filename |-> f, size |-> 2]

-----------------------------------------------------------------------------
(* Properties of the analyzer and the batch executor, checked under SpecBatch *)

Analyzed == analysis_result.analysis_mode # "none"

\* The enumeration handed the analyzer no file.
NothingListed == enum_outcome # "ok" \/ file_list = <<>>

\* C11: when the remote enumeration yields zero files (timeout, provider
\* failure, or an empty answer) the analysis is flagged is_estimated with a
\* mode other than "full"; no analysis is a full-mode result of 0 files.
C11_EstimateFlagged ==
    Analyzed =>
        /\ NothingListed =>
              /\ analysis_result.is_estimated
              /\ analysis_result.analysis_mode # "full"
        /\ ~(analysis_result.analysis_mode = "full"
             /\ analysis_result.total_files = 0)

C11_Witness ==
    /\ Analyzed
    /\ enum_outcome = "timeout"
    /\ file_list # <<>>
    /\ analysis_result.analysis_mode = "estimate"
    /\ analysis_result.is_estimated

\* C12: a batch download whose plan was built from an empty (estimated) file
\* list never ends in success without the transfer having been handed to
\* anything.
C12_EmptyPlanNeverSucceeds ==
    (exec_result = "true" /\ analysis_result.file_list = <<>>)
        => delegated # "none"

\* The batch the last execute_batch_download call was asked to run exists.
BatchSelected ==
    /\ exec_result # "none"
    /\ plan.strategy = "multi_batch"
    /\ exec_batch >= 1
    /\ exec_batch <= plan.total_batches

BookkeepingUntouched ==
    /\ batch_tracker = <<>>
    /\ batch_progress = NoProgress

\* C18: when the free space probed before batch i is below the batch's
\* declared size, execute_batch_download returns failure (False), the
\* transfer agent is not started, no batch tracker is initialised and no
\* BatchProgress is written.
C18_CapacityCheckFailsFast ==
    (BatchSelected /\ free_space < plan.batches[exec_batch].size) =>
        /\ exec_result = "false"
        /\ delegated = "none"
        /\ BookkeepingUntouched

-----------------------------------------------------------------------------
(* Properties of the FileTracker interface, checked under SpecStore *)

\* The file_info of the listing that names f.
\* The step is a FileTracker call of the given operation.
Called(op) == store_calls' = store_calls + 1 /\ last_call'.op = op

InfoOf(listing, f) == listing[CHOOSE i \in 1..Len(listing) : listing[i].filename = f]

Listed(listing, f) == \E i \in 1..Len(listing) : listing[i].filename = f

\* C13: initialize_file_list leaves every record tracked before the call
\* unchanged in every field, removes no identity, and tracks every identity
\* new to the store with the status its file_info supplies, pending when it
\* supplies none.
C13_InitializeNeverOverwrites ==
    [][Called("initialize") =>
          /\ \A f \in DOMAIN file_status :
                /\ f \in DOMAIN file_status'
                /\ file_status'[f] = file_status[f]
          /\ \A f \in DOMAIN file_status' \ DOMAIN file_status :
                /\ Listed(last_call'.listing, f)
                /\ file_status'[f].status =
                      Get(InfoOf(last_call'.listing, f), "status", "pending")
          /\ \A i \in 1..Len(last_call'.listing) :
                last_call'.listing[i].filename \in DOMAIN file_status'
    ]_vars

\* The last call was an initialize naming a file tracked with a record that
\* differs from the one the listing would create, and a second file.
C13_Witness ==
    /\ last_call.op = "initialize"
    /\ Len(last_call.listing) = 2
    /\ file_status[1] # NewRecord(last_call.listing[1])
    /\ file_status[1].status = "failed"
    /\ file_status[2] = NewRecord(last_call.listing[2])
    /\ file_status[2].status = "completed"

\* C14: update_file_status on a filename that is not tracked returns False
\* and changes neither the in-memory map nor file_status.json; no record is
\* created.
C14_UpdateUnknownIsNoOp ==
    [][(Called("update") /\ last_call'.filename \notin DOMAIN file_status) =>
          /\ last_call'.returned = "False"
          /\ file_status' = file_status
          /\ persisted_status' = persisted_status
    ]_vars

C14_Witness ==
    /\ last_call.op = "update"
    /\ last_call.returned = "False"
    /\ DOMAIN file_status = {1}
    /\ last_call.filename = 2
    /\ persisted_status = file_status

ValidTransitions ==
    { <<"pending", "downloading">>, <<"downloading", "completed">>,
      <<"downloading", "failed">>, <<"failed", "pending">> }

\* C15: every change of a tracked record's status, by a scan of a transfer,
\* a reconciliation or any other step of a download, is one of
\* pending -> downloading, downloading -> completed, downloading -> failed,
\* failed -> pending.
C15_OnlyValidTransitions ==
    [][\A f \in DOMAIN file_status \cap DOMAIN file_status' :
          file_status'[f].status # file_status[f].status =>
              <<file_status[f].status, file_status'[f].status>>
                  \in ValidTransitions
    ]_vars

\* C16: a record whose status is completed has an actual size equal to its
\* expected size whenever the expected size is positive.
C16_CompletedSizeConsistent ==
    \A f \in DOMAIN file_status :
        (file_status[f].status = "completed"
         /\ file_status[f].expected_size > 0)
            => file_status[f].actual_size = file_status[f].expected_size

\* C17: a mutating call that reported success has persisted the full map:
\* file_status.json equals the in-memory map right after it.
C17_SuccessMeansPersisted ==
    (last_call.op \in {"update", "mark_completed"}
     /\ last_call.returned = "True")
        => persisted_status = file_status

\* update_file_status alone does return the outcome of its save.
UpdateSuccessMeansPersisted ==
    (last_call.op = "update" /\ last_call.returned = "True")
        => persisted_status = file_status

-----------------------------------------------------------------------------
(* Property of a transfer's result, checked under SpecTransfer *)

\* C20: once the agent has exited and the final scan has run, the transfer
\* returned success exactly when every file handed to the agent is recorded
\* completed.
C20_SuccessIffAllCompleted ==
    download_return.returned # "none" =>
        (download_return.returned = "True"
         <=> \A i \in 1..Len(download_return.file_list) :
                file_status[download_return.file_list[i].filename].status
                    = "completed")

-----------------------------------------------------------------------------
(* Properties of the reconciliation and the scan *)

\* The file is on disk with its expected size, or its expected size is
\* unknown (0).
PresentAndAcceptable(info, on_disk) ==
    /\ on_disk # Absent
    /\ (info.expected_size = 0 \/ on_disk = info.expected_size)

C30_ScanAgreesWithReconcile ==
    download_return.returned # "none" =>
        \A i \in 1..Len(download_return.file_list) :
            LET f == download_return.file_list[i].filename
            IN PresentAndAcceptable(file_status[f], disk[f]) =>
                  file_status[f].status = "completed"

-----------------------------------------------------------------------------
(* Sequencing of the batches (batch_downloader.py 342-408)                   *)

\* execute_batch_download was called on a batch that exists in a
\* multi-batch plan.
MultiBatchExecuted ==
    /\ exec_result # "none"
    /\ exec_plan.strategy = "multi_batch"
    /\ exec_batch >= 1
    /\ exec_batch <= exec_plan.total_batches

\* The started batches are exec_batch, exec_batch + 1, ... without a gap.
StartedInOrder ==
    \A k \in 1..Len(started_batches) : started_batches[k] = exec_batch + k - 1

C23_ContinueReloadsExecutedPlan ==
    (exec_result # "none" /\ exec_plan.strategy = "multi_batch"
        /\ exec_plan.total_batches >= 1) =>
        plan_file = exec_plan

\* A batch-continue issued after a multi-batch execution gets as far as
\* executing the requested batch.
ContinueExecutes ==
    (continue_result # "none" /\ exec_plan.strategy = "multi_batch"
        /\ exec_plan.total_batches >= 1) =>
        continue_result = "executed"

-----------------------------------------------------------------------------
(* The task lifecycle (task_manager.py, downloader.py, main.py)              *)

\* Position of a status on the lifecycle pending -> running -> terminal.
LifecycleRank(status) ==
    IF status = "none" THEN 0
    ELSE IF status = "pending" THEN 1
    ELSE IF status = "running" THEN 2
    ELSE 3

\* C24: every change of the persisted task status moves forward along
\* pending -> running -> completed | failed | cancelled: running is entered
\* only from pending, and a completed, failed or cancelled task never
\* changes its status again.
C24_StatusFollowsLifecycle ==
    [][tasks_file'.status # tasks_file.status =>
          /\ tasks_file.status \notin TerminalStatuses
          /\ LifecycleRank(tasks_file'.status) > LifecycleRank(tasks_file.status)
          /\ tasks_file'.status = "running" => tasks_file.status = "pending"
    ]_vars

\* C25: when start_download returns failure, the persisted task status is
\* failed and an error message is stored with it.
C25_FailureReturnedMeansFailedPersisted ==
    [][(start_return # "false" /\ start_return' = "false") =>
          /\ tasks_file'.status = "failed"
          /\ tasks_file'.error_message
    ]_vars

\* C26: a cancellation of a running task ends the subprocess, and the
\* persisted status cancelled of a task whose transfer was started is left
\* only by a resume (which resets it to pending), never by the completion
\* handling of the transfer or by the save of another process.
C26_CancelledStays ==
    [][/\ (tasks_file.status = "running" /\ tasks_file'.status = "cancelled")
            => agent' # "running"
       /\ (tasks_file.status = "cancelled" /\ dl_pc # "starting"
               /\ tasks_file'.status # "cancelled")
            => tasks_file'.status = "pending"
    ]_vars

-----------------------------------------------------------------------------
(* Monitor thread and main path (downloader.py 583-646)                      *)

\* C27: the monitoring scan and the final scan of the main path are never
\* in progress at the same time: at most one of the two threads is inside
\* a read-modify-write of the state store.
C27_ScansMutuallyExclusive ==
    ~(mon_pc = "scan" /\ main_pc = "final_scan")

-----------------------------------------------------------------------------
(* Scans of a transfer (downloader.py 682-732)                               *)

\* Number of entries of a file list whose record is completed: what a scan
\* of that list reports as completed_count once it has gone through it.
RECURSIVE CompletedIn(_, _)
CompletedIn(map, files) ==
    IF files = <<>> THEN 0
    ELSE (IF Head(files).filename \in DOMAIN map
             /\ map[Head(files).filename].status = "completed"
          THEN 1 ELSE 0) + CompletedIn(map, Tail(files))

-----------------------------------------------------------------------------
(* Result of the reconciliation (downloader.py 390-456)                      *)

\* Number of entries of the pending-work list that name the file.
RECURSIVE TimesListed(_, _)
TimesListed(files, filename) ==
    IF files = <<>> THEN 0
    ELSE (IF Head(files).filename = filename THEN 1 ELSE 0)
         + TimesListed(Tail(files), filename)

\* C36: after the reconciliation of a resume every tracked record is
\* pending or completed, the pending-work list holds each pending record
\* exactly once and nothing else, and every file that is missing on disk
\* and was not tracked completed is pending and in the list.
C36_ReconcilePartitionsTheMap ==
    [][ResumeSmartDownload =>
          /\ \A f \in DOMAIN file_status' :
                /\ file_status'[f].status \in {"pending", "completed"}
                /\ TimesListed(pending_files', f) =
                      (IF file_status'[f].status = "pending" THEN 1 ELSE 0)
                /\ (disk[f] = Absent /\ file_status[f].status # "completed")
                      => file_status'[f].status = "pending"
          /\ \A i \in 1..Len(pending_files') :
                pending_files'[i].filename \in DOMAIN file_status'
    ]_vars

\* A reconciliation has just run: a file that is missing on disk is pending
\* and handed to the transfer, another one is completed.
C36_Witness ==
    /\ quiet_runs >= 1 /\ ~changed_since /\ phase = "executing"
    /\ \E f, g \in DOMAIN file_status :
          /\ disk[f] = Absent
          /\ file_status[f].status = "pending"
          /\ TimesListed(pending_files, f) = 1
          /\ file_status[g].status = "completed"
          /\ TimesListed(pending_files, g) = 0

-----------------------------------------------------------------------------
(* Packing order of _create_batches (batch_downloader.py 296-335)            *)

\* C35: in a multi-batch plan every file of a non-oversize batch was placed
\* into the first batch that had room for it; so no earlier non-oversize
\* batch of the finished plan can still hold a file of a later batch.
C35_FirstFitDecreasing ==
    plan.strategy = "multi_batch" =>
        \A i, j \in 1..Len(plan.batches) :
            (i < j /\ plan.batches[i].note = NoNote
                   /\ plan.batches[j].note = NoNote) =>
                \A k \in 1..Len(plan.batches[j].files) :
                    plan.batches[i].size + plan.batches[j].files[k].size
                        > plan.safe_space

-----------------------------------------------------------------------------
(* The batch index of execute_batch_download (batch_downloader.py 346-357)   *)

\* C39: a call of execute_batch_download works on a batch only when the
\* requested index is within 1..total_batches, and then on the batch at
\* exactly that index; an index above total_batches picks no batch and
\* returns success, an index below 1 picks no batch.
C39_OnlyTheRequestedBatch ==
    (exec_result # "none" /\ exec_plan.strategy = "multi_batch") =>
        /\ selected_batch # 0 =>
              /\ exec_batch >= 1
              /\ exec_batch <= exec_plan.total_batches
              /\ selected_batch = exec_batch
        /\ exec_batch > exec_plan.total_batches =>
              (selected_batch = 0 /\ exec_result = "true")

-----------------------------------------------------------------------------
(* BatchProgress after a batch (batch_downloader.py 379-408, 423-451)        *)

\* _save_batch_progress: the dict written to batch_progress.json.  It is
\* written once, before _download_batch, and has no field that tells a
\* finished batch from a batch in progress.
BatchMetadata(current_batch, total_batches, batch_size) ==
    [current_batch |-> current_batch,
     total_batches |-> total_batches,
     batch_size    |-> batch_size]

\* C32: when the execution of batch i of a multi-batch plan has ended
\* without failure, the persisted BatchProgress names batch i and was
\* written again after the transfer: it is not the record that was written
\* when the batch began.
C32_ProgressUpdatedAfterBatch ==
    (MultiBatchExecuted /\ exec_result # "false") =>
        /\ batch_progress # NoProgress
        /\ batch_progress.current_batch = exec_batch
        /\ batch_progress #
              BatchMetadata(exec_batch, exec_plan.total_batches,
                            exec_plan.batches[exec_batch].size)

-----------------------------------------------------------------------------
(* Task identifiers (task_manager.py 36-79)                                  *)

\* C38: no two tasks of the registry share an id.
C38_TaskIdsUnique ==
    \A i, j \in 1..Len(registry) :
        i # j => registry[i] # registry[j]

-----------------------------------------------------------------------------
(* Timestamps of a file record (file_tracker.py 95-114, downloader.py        *)
(* 713-723)                                                                  *)

\* C31: once started_at is stamped no later step changes it, and every step
\* that sets the status to completed or failed stamps completed_at with the
\* time of that step.
C31_StartedAtStampedOnce ==
    [][/\ stamps.started_at # Unstamped =>
              stamps'.started_at = stamps.started_at
       /\ (/\ stamps'.status \in {"completed", "failed"}
           /\ stamps'.status # stamps.status) =>
              stamps'.completed_at = GetCurrentTimestamp(now)]_vars

-----------------------------------------------------------------------------
(* The enumeration timeout (batch_downloader.py 72-96)                       *)

\* C34: once the caller has timed out it holds the empty result for good and
\* the background enumeration sends no further request.
C34_TimeoutAbortsEnumeration ==
    [][(enumeration # NoEnumeration /\ enumeration.caller = "timed_out") =>
          /\ enumeration'.returned = "empty"
          /\ enumeration'.requests = enumeration.requests]_vars

-----------------------------------------------------------------------------
(* What a resume hands to the agent, and when a task is completed            *)
(* (downloader.py 305-338, 368-398, 473-479, 642-674)                        *)

\* C33: when start_download finds records and starts the agent, every file
\* it hands over is tracked and pending in the store at that moment.
C33_ResumeHandsOverPendingRecords ==
    [][(phase = "idle" /\ phase' = "executing" /\ DOMAIN file_status # {}) =>
          \A i \in 1..Len(exec_files') :
              /\ exec_files'[i].filename \in DOMAIN file_status'
              /\ file_status'[exec_files'[i].filename].status = "pending"
      ]_vars

\* C37: while the task's status is completed, every record of its store is
\* completed.
C37_CompletedTaskHasCompleteInventory ==
    tasks_file.status = "completed" =>
        \A f \in DOMAIN file_status : file_status[f].status = "completed"

\* A resume handed over a part of the inventory and the task is completed.
C37_Witness ==
    /\ tasks_file.status = "completed"
    /\ Len(pending_files) > 0
    /\ Cardinality(DOMAIN file_status) > Len(pending_files)

====
